---- MODULE Spec2Model ----
(***************************************************************************)
(* Name resolution of vhdl_lang (analysis/names.rs).                       *)
(*                                                                         *)
(* A name is a leaf (designator or external name) followed by suffixes.    *)
(* name_resolve_with_suffixes recurses to the leaf and applies one suffix  *)
(* per frame while the recursion unwinds: the model takes one step for the *)
(* leaf and one step per suffix.  The driver looks at a suffix only in the *)
(* frame that applies it, so the syntax tree is revealed to the model      *)
(* suffix by suffix; references written into the tree persist, and the     *)
(* same tree can be resolved again by a later entry point call.            *)
(***************************************************************************)
EXTENDS Naturals, Sequences, FiniteSets, TLC

\* Bounds of the model
MaxSuffixes == 2
MaxAssocs == 2
MaxPasses == 2

NoRef == "-"
NoType == "-"

(***************************************************************************)
(* The entity arena: a fixed declarative region                            *)
(*   subtype natural is integer ...; type integer_vector is array (natural *)
(*   range <>) of integer; type matrix_t is array (natural, natural) of    *)
(*   integer; type ptr_t is access integer_vector; type rec_t is record    *)
(*   fld : natural; end record; type prot_t is protected function          *)
(*   meth(arg : natural) return integer; end protected; ...                *)
(***************************************************************************)
E0 ==
  [kind |-> "-", tk |-> "-", of |-> NoType, rank |-> 0, elem |-> NoType,
   class |-> "-", typ |-> NoType, base_object |-> NoRef,
   formals |-> << >>, ret |-> NoType, desc |-> "-"]

TypeEntity(tk, desc) == [E0 EXCEPT !.kind = "Type", !.tk = tk, !.desc = desc]

ArrayEntity(rank, elem, desc) ==
  [E0 EXCEPT !.kind = "Type", !.tk = "Array", !.rank = rank, !.elem = elem, !.desc = desc]

ObjectEntity(class, typ, desc) ==
  [E0 EXCEPT !.kind = "Object", !.class = class, !.typ = typ, !.desc = desc]

SubprogramEntity(formals, ret, desc) ==
  [E0 EXCEPT !.kind = "Overloaded", !.formals = formals, !.ret = ret, !.desc = desc]

OtherEntity(kind, typ, desc) == [E0 EXCEPT !.kind = kind, !.typ = typ, !.desc = desc]

TypeIds ==
  {"integer", "natural", "real", "character", "integer_vector", "matrix_t",
   "ptr_t", "rec_t", "prot_t", "file_t", "time", "sub_vec", "sptr_t", "pptr_t"}

ObjectIds == {"c0", "v_arr", "v_mat", "vptr", "c_rec", "sv_prot", "al", "dc", "ext_al"}

SubprogramIds ==
  {"fun_i", "fun_c", "foo", "myfun", "proc", "proc0", "alpha_i", "alpha_c",
   "alpha_n", "meth"}

OtherIds ==
  {"lib", "pkg", "inst", "myfile", "ifile", "comp", "lbl", "lp", "ns", "attr", "fld"}

EntIds == TypeIds \cup ObjectIds \cup SubprogramIds \cup OtherIds

Arena ==
  [id \in EntIds |->
    CASE id = "integer" -> TypeEntity("Integer", "integer type 'INTEGER'")
      [] id = "natural" ->
           [TypeEntity("Subtype", "subtype 'NATURAL'") EXCEPT !.of = "integer"]
      [] id = "real" -> TypeEntity("Real", "real type 'REAL'")
      [] id = "character" -> TypeEntity("Enum", "type 'CHARACTER'")
      [] id = "time" -> TypeEntity("Physical", "physical type 'TIME'")
      [] id = "integer_vector" ->
           ArrayEntity(1, "integer", "array type 'INTEGER_VECTOR'")
      [] id = "matrix_t" -> ArrayEntity(2, "integer", "array type 'matrix_t'")
      [] id = "ptr_t" ->
           [TypeEntity("Access", "access type 'ptr_t'") EXCEPT !.of = "integer_vector"]
      [] id = "sub_vec" ->
           [TypeEntity("Subtype", "subtype 'sub_vec'") EXCEPT !.of = "integer_vector"]
      [] id = "sptr_t" ->
           [TypeEntity("Access", "access type 'sptr_t'") EXCEPT !.of = "sub_vec"]
      [] id = "pptr_t" ->
           [TypeEntity("Access", "access type 'pptr_t'") EXCEPT !.of = "ptr_t"]
      [] id = "rec_t" -> TypeEntity("Record", "record type 'rec_t'")
      [] id = "prot_t" -> TypeEntity("Protected", "protected type 'prot_t'")
      [] id = "file_t" ->
           [TypeEntity("File", "file type 'file_t'") EXCEPT !.of = "character"]
      [] id = "c0" -> ObjectEntity("constant", "natural", "constant 'c0'")
      [] id = "v_arr" -> ObjectEntity("variable", "integer_vector", "variable 'v_arr'")
      [] id = "v_mat" -> ObjectEntity("variable", "matrix_t", "variable 'v_mat'")
      [] id = "vptr" -> ObjectEntity("variable", "ptr_t", "variable 'vptr'")
      [] id = "c_rec" -> ObjectEntity("constant", "rec_t", "constant 'c_rec'")
      [] id = "sv_prot" ->
           ObjectEntity("shared variable", "prot_t", "shared variable 'sv_prot'")
      [] id = "al" ->
           [OtherEntity("ObjectAlias", "integer_vector", "alias 'al'")
              EXCEPT !.base_object = "v_arr"]
      [] id = "dc" -> OtherEntity("DeferredConstant", "rec_t", "deferred constant 'dc'")
      [] id = "ext_al" ->
           [OtherEntity("ExternalAlias", "integer_vector", "external alias 'ext_al'")
              EXCEPT !.class = "signal"]
      [] id = "fun_i" -> SubprogramEntity(<<"natural">>, "integer", "fun[NATURAL return INTEGER]")
      [] id = "fun_c" ->
           SubprogramEntity(<<"natural">>, "character", "fun[NATURAL return CHARACTER]")
      [] id = "foo" -> SubprogramEntity(<< >>, "rec_t", "foo[return rec_t]")
      [] id = "myfun" -> SubprogramEntity(<< >>, "integer_vector", "myfun[return INTEGER_VECTOR]")
      [] id = "proc" -> SubprogramEntity(<<"natural">>, NoType, "proc[NATURAL]")
      [] id = "proc0" -> SubprogramEntity(<< >>, NoType, "proc0[]")
      [] id = "alpha_i" -> SubprogramEntity(<< >>, "integer", "alpha[return INTEGER]")
      [] id = "alpha_c" -> SubprogramEntity(<< >>, "character", "alpha[return CHARACTER]")
      [] id = "alpha_n" -> SubprogramEntity(<< >>, "natural", "alpha[return NATURAL]")
      [] id = "meth" -> SubprogramEntity(<<"natural">>, "integer", "meth[NATURAL return INTEGER]")
      [] id = "lib" -> OtherEntity("Library", NoType, "library lib")
      [] id = "pkg" -> OtherEntity("Design", NoType, "package 'pkg'")
      [] id = "inst" -> OtherEntity("Design", NoType, "package instance 'inst'")
      [] id = "myfile" -> OtherEntity("File", "file_t", "file 'myfile'")
      [] id = "ifile" -> OtherEntity("InterfaceFile", "file_t", "file 'ifile'")
      [] id = "comp" -> OtherEntity("Component", NoType, "component 'comp'")
      [] id = "lbl" -> OtherEntity("Label", NoType, "label 'lbl'")
      [] id = "lp" -> OtherEntity("LoopParameter", NoType, "loop parameter 'lp'")
      [] id = "ns" -> OtherEntity("PhysicalLiteral", "time", "physical literal 'ns'")
      [] id = "attr" -> OtherEntity("Attribute", "integer", "attribute 'attr'")
      [] id = "fld" -> OtherEntity("ElementDeclaration", "natural", "element declaration 'fld'")]

\* The overloaded names of the region: designator -> set of subprograms
OverloadedSets ==
  [d \in {"fun", "foo", "myfun", "proc", "proc0", "alpha", "meth"} |->
    CASE d = "fun" -> {"fun_i", "fun_c"}
      [] d = "alpha" -> {"alpha_i", "alpha_c", "alpha_n"}
      [] OTHER -> {d}]

\* Designators that denote a single entity in the scope
ScopeSingles ==
  (TypeIds \ {"time", "sub_vec", "sptr_t", "pptr_t"}) \cup ObjectIds
    \cup {"lib", "pkg", "myfile", "ifile", "comp", "lbl", "lp", "ns"}

\* Overloaded designators visible in the scope (meth only inside prot_t)
ScopeOverloaded == {"fun", "foo", "myfun", "proc", "proc0", "alpha"}

\* Every designator a name of the model can use; "nope" is declared nowhere
Designators == ScopeSingles \cup ScopeOverloaded \cup {"fld", "meth", "attr", "inst", "nope"}

\* The declarations of package pkg.  Those that use pkg.all makes visible are
\* in the scope; the attribute attr and the package instance inst are reached
\* by selection only
PkgMembers ==
  (TypeIds \ {"time", "sub_vec", "sptr_t", "pptr_t"}) \cup ObjectIds
    \cup {"myfile", "comp", "ns", "attr", "inst"}
    \cup ScopeOverloaded

(***************************************************************************)
(* Type model (named_entity): base_type, accessed_type, sliced_as,         *)
(* array_type, selected                                                    *)
(***************************************************************************)
base_type(t) == IF Arena[t].tk = "Subtype" THEN Arena[t].of ELSE t

accessed_type(t) ==
  IF Arena[base_type(t)].tk = "Access" THEN Arena[base_type(t)].of ELSE NoType

sliced_as(t) ==
  LET b == base_type(t) IN
  IF Arena[b].tk = "Array" THEN t
  ELSE IF Arena[b].tk = "Access" /\ Arena[base_type(Arena[b].of)].tk = "Array"
       THEN Arena[b].of
       ELSE NoType

\* (elem, rank) of an array or an access to an array; rank 0 with NoType otherwise
array_type(t) ==
  LET b == base_type(t)
      a == IF Arena[b].tk = "Access" THEN base_type(Arena[b].of) ELSE b
  IN IF Arena[a].tk = "Array"
     THEN [some |-> TRUE, elem |-> Arena[a].elem, rank |-> Arena[a].rank]
     ELSE [some |-> FALSE, elem |-> NoType, rank |-> 0]

\* TypedSelection of a designator out of a value of type t
type_selected(t, d) ==
  LET b == base_type(t) IN
  IF Arena[b].tk = "Record" /\ b = "rec_t" /\ d = "fld"
  THEN [k |-> "RecordElement", elem |-> "fld", set |-> {}]
  ELSE IF Arena[b].tk = "Protected" /\ b = "prot_t" /\ d = "meth"
       THEN [k |-> "ProtectedMethod", elem |-> NoRef, set |-> OverloadedSets["meth"]]
       ELSE [k |-> "Err", elem |-> NoRef, set |-> {}]

return_type(ent) == Arena[ent].ret


designator(ent) ==
  CASE ent \in {"fun_i", "fun_c"} -> "fun"
    [] ent \in {"alpha_i", "alpha_c", "alpha_n"} -> "alpha"
    [] OTHER -> ent

(***************************************************************************)
(* Source positions: the name made of the leaf and its first i suffixes,   *)
(* the designator of the i-th suffix, the j-th actual of the i-th suffix   *)
(***************************************************************************)
NamePos(i) == [p |-> "name", i |-> i, j |-> 0]
SelPos(i) == [p |-> "suffix", i |-> i, j |-> 0]
ArgPos(i, j) == [p |-> "actual", i |-> i, j |-> j]

DiagError(pos, msg) == [sev |-> "error", pos |-> pos, msg |-> msg]
DiagWarning(pos, msg) == [sev |-> "warning", pos |-> pos, msg |-> msg]
NoDiag == [sev |-> "-", pos |-> NamePos(0), msg |-> "-"]

(***************************************************************************)
(* ObjectBase, ObjectName and ResolvedName                                 *)
(***************************************************************************)
B0 == [bk |-> "-", ent |-> NoRef, obj |-> NoRef, class |-> "-"]
BaseObject(ent) == [B0 EXCEPT !.bk = "Object", !.ent = ent, !.obj = ent]
BaseObjectAlias(obj, alias) == [B0 EXCEPT !.bk = "ObjectAlias", !.ent = alias, !.obj = obj]
BaseDeferredConstant(ent) == [B0 EXCEPT !.bk = "DeferredConstant", !.ent = ent]
BaseExternalName(class) == [B0 EXCEPT !.bk = "ExternalName", !.class = class]

ObjectBase_class(base) ==
  CASE base.bk \in {"Object", "ObjectAlias"} -> Arena[base.obj].class
    [] base.bk = "DeferredConstant" -> "constant"
    [] OTHER -> base.class

ObjectBase_describe(base) ==
  CASE base.bk = "DeferredConstant" -> "deferred constant '" \o designator(base.ent) \o "'"
    [] base.bk = "ExternalName" -> "external name"
    [] base.bk = "Object" -> Arena[base.ent].desc
    [] OTHER -> "alias '" \o designator(base.ent) \o "' of " \o ObjectBase_class(base)

RN0 ==
  [kind |-> "-", ent |-> NoRef, typ |-> NoType, base |-> B0,
   des |-> "-", dpos |-> NamePos(0), set |-> {}, amb |-> FALSE]

RLibrary(sym) == [RN0 EXCEPT !.kind = "Library", !.des = sym]
RDesign(ent) == [RN0 EXCEPT !.kind = "Design", !.ent = ent]
RType(t) == [RN0 EXCEPT !.kind = "Type", !.typ = t]
ROverloaded(des, dpos, set) ==
  [RN0 EXCEPT !.kind = "Overloaded", !.des = des, !.dpos = dpos, !.set = set]
\* type_mark NoType is the absent type mark
RObjectName(base, type_mark) == [RN0 EXCEPT !.kind = "ObjectName", !.base = base, !.typ = type_mark]
RExpression(t) == [RN0 EXCEPT !.kind = "Expression", !.typ = t]
RAmbiguousExpression(types) == [RN0 EXCEPT !.kind = "Expression", !.amb = TRUE, !.set = types]
RFinal(ent) == [RN0 EXCEPT !.kind = "Final", !.ent = ent]

\* ObjectName::type_mark reaches unreachable!() on such a name
type_mark_unreachable(oname) == oname.typ = NoType /\ oname.base.bk # "Object"

ObjectName_type_mark(oname) ==
  IF oname.typ # NoType THEN oname.typ
  ELSE IF oname.base.bk = "Object" THEN Arena[oname.base.ent].typ ELSE NoType

\* The name left with the type mark it had
with_suffix_KeepsTypeMark(oname, type_mark) == oname

with_suffix(oname, type_mark) == RObjectName(oname.base, type_mark)

ObjectName_describe_type(oname) ==
  IF oname.typ # NoType THEN Arena[oname.typ].desc
  ELSE ObjectBase_describe(oname.base) \o " of " \o Arena[ObjectName_type_mark(oname)].desc

describe(rn) ==
  CASE rn.kind = "Library" -> "library " \o rn.des
    [] rn.kind \in {"Design", "Final"} -> Arena[rn.ent].desc
    [] rn.kind = "Type" -> Arena[rn.typ].desc
    [] rn.kind = "Overloaded" ->
         IF Cardinality(rn.set) = 1 THEN Arena[CHOOSE e \in rn.set : TRUE].desc
         ELSE "Overloaded name " \o rn.des
    [] rn.kind = "ObjectName" -> ObjectBase_describe(rn.base)
    [] rn.kind = "Expression" /\ ~rn.amb -> "Expression"
    [] OTHER -> "Ambiguous expression"

describe_type(rn) ==
  CASE rn.kind = "ObjectName" -> ObjectName_describe_type(rn)
    [] rn.kind = "Expression" /\ ~rn.amb -> "Expression of " \o Arena[rn.typ].desc
    [] OTHER -> describe(rn)

\* Result<ResolvedName, String> of the two classifiers
ClassOk(rn) == [ok |-> TRUE, rn |-> rn, msg |-> "-"]
ClassErr(msg) == [ok |-> FALSE, rn |-> RN0, msg |-> msg]

kind_describe(ent) == Arena[ent].desc

\* The object names all left without a type mark
ClassifyObjectLike_NoTypeMark(ent) ==
  CASE Arena[ent].kind = "Object" -> RObjectName(BaseObject(ent), NoType)
    [] Arena[ent].kind = "ObjectAlias" ->
         RObjectName(BaseObjectAlias(Arena[ent].base_object, ent), NoType)
    [] Arena[ent].kind = "ExternalAlias" ->
         RObjectName(BaseExternalName(Arena[ent].class), NoType)
    [] OTHER -> RObjectName(BaseDeferredConstant(ent), NoType)

ClassifyObjectLike(ent) ==
  LET e == Arena[ent] IN
  CASE e.kind = "Object" -> RObjectName(BaseObject(ent), NoType)
    [] e.kind = "ObjectAlias" -> RObjectName(BaseObjectAlias(e.base_object, ent), e.typ)
    [] e.kind = "ExternalAlias" -> RObjectName(BaseExternalName(e.class), e.typ)
    [] OTHER -> RObjectName(BaseDeferredConstant(ent), e.typ)

ObjectLikeKinds == {"Object", "ObjectAlias", "ExternalAlias", "DeferredConstant"}

\* The classifier that takes nothing but objects and types out of a design unit
from_design_not_overloaded_NoFinal(ent) ==
  CASE Arena[ent].kind \in ObjectLikeKinds -> ClassOk(ClassifyObjectLike(ent))
    [] Arena[ent].kind = "Type" -> ClassOk(RType(ent))
    [] OTHER -> ClassErr(kind_describe(ent) \o " cannot be selected from design unit")

\* The classifier that lets a design unit be selected out of a design unit
from_design_not_overloaded_DesignSelectable(ent) ==
  CASE Arena[ent].kind \in ObjectLikeKinds -> ClassOk(ClassifyObjectLike(ent))
    [] Arena[ent].kind = "Type" -> ClassOk(RType(ent))
    [] Arena[ent].kind = "Design" -> ClassOk(RDesign(ent))
    [] Arena[ent].kind = "Overloaded" ->
         ClassErr("Internal error. Unreachable as overloaded is handled outside")
    [] Arena[ent].kind \in {"File", "InterfaceFile", "Component", "PhysicalLiteral"} ->
         ClassOk(RFinal(ent))
    [] OTHER -> ClassErr(kind_describe(ent) \o " cannot be selected from design unit")

from_design_not_overloaded(ent) ==
  LET k == Arena[ent].kind IN
  CASE k \in ObjectLikeKinds -> ClassOk(ClassifyObjectLike(ent))
    [] k = "Type" -> ClassOk(RType(ent))
    [] k = "Overloaded" ->
         ClassErr("Internal error. Unreachable as overloaded is handled outside")
    [] k \in {"File", "InterfaceFile", "Component", "PhysicalLiteral"} -> ClassOk(RFinal(ent))
    [] OTHER -> ClassErr(kind_describe(ent) \o " cannot be selected from design unit")

\* The scope classified as a design unit is
from_scope_not_overloaded_AsDesign(ent) == from_design_not_overloaded(ent)

from_scope_not_overloaded(ent) ==
  LET k == Arena[ent].kind IN
  CASE k \in ObjectLikeKinds -> ClassOk(ClassifyObjectLike(ent))
    [] k = "Type" -> ClassOk(RType(ent))
    [] k = "Design" -> ClassOk(RDesign(ent))
    [] k = "Library" -> ClassOk(RLibrary(designator(ent)))
    [] k = "Overloaded" ->
         ClassErr("Internal error. Unreachable as overloded is handled outside this function")
    [] k \in {"File", "InterfaceFile", "Component", "Label", "LoopParameter",
              "PhysicalLiteral"} -> ClassOk(RFinal(ent))
    [] OTHER -> ClassErr(kind_describe(ent) \o " should never be looked up from the current scope")


(***************************************************************************)
(* Syntax: association elements, suffixes, leaves                          *)
(***************************************************************************)
\* actual: "Open", "Lit" (an expression that is no name) or "Name" (the
\* expression is the simple name des, with its reference slot ref)
Assoc(formal, actual, des) == [formal |-> formal, actual |-> actual, des |-> des, ref |-> NoRef]

ArgNames == {"natural", "character", "real", "c0"}

AssocForms ==
  {Assoc(FALSE, "Lit", "-"), Assoc(TRUE, "Lit", "-"), Assoc(FALSE, "Open", "-")}
    \cup {Assoc(FALSE, "Name", d) : d \in ArgNames}

AssocLists == UNION {[1..n -> AssocForms] : n \in 0..MaxAssocs}

\* analyzed counts the analyses of the suffix's inner expressions or range
S0 ==
  [kind |-> "-", des |-> "-", ref |-> NoRef, assocs |-> << >>,
   sig |-> FALSE, expr |-> FALSE, analyzed |-> 0]

SuffixForms ==
  {[S0 EXCEPT !.kind = "Selected", !.des = d] : d \in Designators}
    \cup {[S0 EXCEPT !.kind = "All"], [S0 EXCEPT !.kind = "Slice"]}
    \cup {[S0 EXCEPT !.kind = "Attribute", !.sig = b, !.expr = c] : b, c \in BOOLEAN}
    \cup {[S0 EXCEPT !.kind = "CallOrIndexed", !.assocs = a] : a \in AssocLists}

ExternalClasses == {"signal"}
ExternalSubtypes == {"integer_vector"}

Leaves ==
  {[kind |-> "Designator", des |-> d, ref |-> NoRef, class |-> "-", subtype |-> NoType] :
     d \in ScopeSingles \cup ScopeOverloaded \cup {"nope"}}
    \cup {[kind |-> "External", des |-> "-", ref |-> NoRef, class |-> c, subtype |-> t] :
            c \in ExternalClasses, t \in ExternalSubtypes}

could_be_indexed_name(assocs) ==
  \A i \in 1..Len(assocs) : ~assocs[i].formal /\ assocs[i].actual # "Open"

(***************************************************************************)
(* Scope and library lookup, design unit selection (region)                *)
(***************************************************************************)
\* NamedEntities or the not-found error
scope_lookup(d) ==
  CASE d \in ScopeSingles -> [k |-> "Single", ent |-> d, set |-> {}]
    [] d \in ScopeOverloaded -> [k |-> "Overloaded", ent |-> NoRef, set |-> OverloadedSets[d]]
    [] OTHER -> [k |-> "Err", ent |-> NoRef, set |-> {}]

design_selected(design, d) ==
  CASE design = "pkg" /\ d \in PkgMembers \ ScopeOverloaded ->
         [k |-> "Single", ent |-> d, set |-> {}]
    [] design = "pkg" /\ d \in ScopeOverloaded ->
         [k |-> "Overloaded", ent |-> NoRef, set |-> OverloadedSets[d]]
    [] OTHER -> [k |-> "Err", ent |-> NoRef, set |-> {}]

lookup_in_library(sym, d) ==
  IF sym = "lib" /\ d = "pkg" THEN [ok |-> TRUE, ent |-> "pkg"] ELSE [ok |-> FALSE, ent |-> NoRef]

\* HasUniqueReference: the entity a NamedEntities value stands for, if one
as_unique(named) ==
  CASE named.k = "Single" -> named.ent
    [] named.k = "Overloaded" /\ Cardinality(named.set) = 1 -> CHOOSE e \in named.set : TRUE
    [] OTHER -> NoRef

(***************************************************************************)
(* Expression analysis of the inner parts of a suffix (analyze)            *)
(***************************************************************************)
\* analyze_expression on an actual: a simple name gets its reference
AnalyzeAssoc(a) ==
  IF a.actual = "Name" /\ scope_lookup(a.des).k = "Single"
  THEN [a EXCEPT !.ref = scope_lookup(a.des).ent]
  ELSE a

analyze_assoc_elems(suffix) ==
  [suffix EXCEPT !.assocs = [i \in 1..Len(suffix.assocs) |-> AnalyzeAssoc(suffix.assocs[i])],
                 !.analyzed = @ + 1]

analyze_discrete_range(suffix) == [suffix EXCEPT !.analyzed = @ + 1]

analyze_attribute(suffix) ==
  IF suffix.sig \/ suffix.expr THEN [suffix EXCEPT !.analyzed = @ + 1] ELSE suffix

\* The type of an actual as an expression, NoType when it has none
ActualType(a) ==
  CASE a.actual = "Lit" -> "integer"
    [] a.actual = "Name" /\ a.des \in ObjectIds -> Arena[a.des].typ
    [] OTHER -> NoType

(***************************************************************************)
(* Overload disambiguation (overloaded)                                    *)
(***************************************************************************)
Disambiguated(cands) ==
  CASE cands = {} -> [k |-> "None", ent |-> NoRef, set |-> {}]
    [] Cardinality(cands) = 1 ->
         [k |-> "Unambiguous", ent |-> CHOOSE e \in cands : TRUE, set |-> {}]
    [] OTHER -> [k |-> "Ambiguous", ent |-> NoRef, set |-> cands]

HasReturnType(ent, ttyp) ==
  ttyp = NoType \/ (Arena[ent].ret # NoType /\ base_type(Arena[ent].ret) = base_type(ttyp))

disambiguate_no_actuals(ttyp, set) ==
  Disambiguated({e \in set : Arena[e].formals = << >> /\ HasReturnType(e, ttyp)})

AcceptsActuals(ent, assocs) ==
  /\ Len(Arena[ent].formals) = Len(assocs)
  /\ \A i \in 1..Len(assocs) :
       /\ ActualType(assocs[i]) # NoType
       /\ base_type(ActualType(assocs[i])) = base_type(Arena[ent].formals[i])

disambiguate(assocs, ttyp, set) ==
  Disambiguated({e \in set : AcceptsActuals(e, assocs) /\ HasReturnType(e, ttyp)})

can_be_target_type(typ, ttyp_base) == base_type(typ) = ttyp_base


(***************************************************************************)
(* Reference slots of the syntax tree nm = [leaf, sfx]                     *)
(***************************************************************************)
\* The name made of the leaf and the first i suffixes has a suffix reference
\* when it is a designator or a selected name
HasSuffixReference(nm, i) ==
  IF i = 0 THEN nm.leaf.kind = "Designator" ELSE nm.sfx[i].kind = "Selected"

get_suffix_reference(nm, i) ==
  IF ~HasSuffixReference(nm, i) THEN NoRef
  ELSE IF i = 0 THEN nm.leaf.ref ELSE nm.sfx[i].ref

set_unique_reference(nm, i, ent) ==
  IF ~HasSuffixReference(nm, i) THEN nm
  ELSE IF i = 0 THEN [nm EXCEPT !.leaf.ref = ent] ELSE [nm EXCEPT !.sfx[i].ref = ent]

(***************************************************************************)
(* Diagnostics                                                             *)
(***************************************************************************)
\* The message that describes the prefix with its type whatever the suffix
cannot_be_prefix_TypeAlways(prefix_pos, resolved, suffix) ==
  DiagError(prefix_pos,
            describe_type(resolved) \o " cannot be "
              \o (CASE suffix.kind = "Selected" -> "selected"
                    [] suffix.kind = "All" -> "accessed with .all"
                    [] suffix.kind = "Slice" -> "sliced"
                    [] suffix.kind = "Attribute" -> "the prefix of an attribute"
                    [] OTHER -> IF could_be_indexed_name(suffix.assocs) THEN "indexed"
                                ELSE "called as a function"))

cannot_be_prefix(prefix_pos, resolved, suffix) ==
  LET suffix_desc ==
        CASE suffix.kind = "Selected" -> "selected"
          [] suffix.kind = "All" -> "accessed with .all"
          [] suffix.kind = "Slice" -> "sliced"
          [] suffix.kind = "Attribute" -> "the prefix of an attribute"
          [] OTHER -> IF could_be_indexed_name(suffix.assocs) THEN "indexed"
                      ELSE "called as a function"
      name_desc ==
        IF suffix.kind = "CallOrIndexed" /\ ~could_be_indexed_name(suffix.assocs)
        THEN describe(resolved)
        ELSE describe_type(resolved)
  IN DiagError(prefix_pos, name_desc \o " cannot be " \o suffix_desc)

dimension_mismatch(pos) == DiagError(pos, "Number of indexes does not match array dimension")

unreachable(pos, expected) ==
  DiagWarning(pos, "Internal error, unreachable code " \o expected)

ProcedureInExpression(pos) ==
  DiagError(pos, "Procedure calls are not valid in names and expressions")

invalid_discrete_range(pos, typ) ==
  DiagError(pos, Arena[typ].desc \o " cannot be used as a discrete range")

not_found(pos, d) == DiagError(pos, "No declaration of '" \o d \o "'")

(***************************************************************************)
(* Typed slices: arr(sub_t)                                                *)
(***************************************************************************)
DR(k, typ, diag, assocs) == [k |-> k, typ |-> typ, diag |-> diag, assocs |-> assocs]

\* Any type accepted as a discrete range
DiscreteRangeOf_AnyType(c, a, expr_pos) ==
  IF ~c.ok THEN DR("Err", NoType, DiagError(expr_pos, c.msg), <<a>>)
  ELSE IF c.rn.kind # "Type" THEN DR("None", NoType, NoDiag, <<a>>)
  ELSE DR("Some", c.rn.typ, NoDiag, <<a>>)

\* The actual named a single entity, classified as c; a is the actual with
\* its reference set
DiscreteRangeOf(c, a, expr_pos) ==
  IF ~c.ok THEN DR("Err", NoType, DiagError(expr_pos, c.msg), <<a>>)
  ELSE IF c.rn.kind # "Type" THEN DR("None", NoType, NoDiag, <<a>>)
  ELSE IF Arena[base_type(c.rn.typ)].tk \in {"Enum", "Integer"}
       THEN DR("Some", c.rn.typ, NoDiag, <<a>>)
       ELSE DR("Err", NoType, invalid_discrete_range(expr_pos, c.rn.typ), <<a>>)

ResolvedRangeName(named, a, expr_pos) ==
  CASE named.k = "Err" -> DR("Err", NoType, not_found(expr_pos, a.des), <<a>>)
    [] named.k = "Overloaded" -> DR("None", NoType, NoDiag, <<a>>)
    [] OTHER -> DiscreteRangeOf(from_scope_not_overloaded(named.ent),
                                [a EXCEPT !.ref = named.ent], expr_pos)

\* The actual is the name a.des: name_resolve on it, then the discrete check
expr_as_discrete_range_type(a, expr_pos) ==
  IF a.actual # "Name" THEN DR("None", NoType, NoDiag, <<a>>)
  ELSE ResolvedRangeName(scope_lookup(a.des), a, expr_pos)

\* i is the index of the suffix that holds the associations
assoc_as_discrete_range_type(assocs, i) ==
  IF ~could_be_indexed_name(assocs) \/ Len(assocs) # 1
  THEN DR("None", NoType, NoDiag, assocs)
  ELSE expr_as_discrete_range_type(assocs[1], ArgPos(i, 1))

(***************************************************************************)
(* resolve_typed_suffix: the suffix with index i applied to a prefix of    *)
(* type prefix_typ.  k is Type, Method, None or Err; suffix is the suffix  *)
(* node after the call                                                     *)
(***************************************************************************)
TS(k, typ, des, set, diag, suffix) ==
  [k |-> k, typ |-> typ, des |-> des, set |-> set, diag |-> diag, suffix |-> suffix]

\* The selection that leaves the reference of the suffix unset
Selection_NoReference(sel, i, prefix_typ, suffix) ==
  CASE sel.k = "RecordElement" -> TS("Type", Arena[sel.elem].typ, "-", {}, NoDiag, suffix)
    [] sel.k = "ProtectedMethod" -> TS("Method", NoType, suffix.des, sel.set, NoDiag, suffix)
    [] OTHER ->
         TS("Err", NoType, "-", {},
            DiagError(SelPos(i), "No declaration of '" \o suffix.des \o "' within "
                                   \o Arena[prefix_typ].desc), suffix)

Selection(sel, i, prefix_typ, suffix) ==
  CASE sel.k = "RecordElement" ->
         TS("Type", Arena[sel.elem].typ, "-", {}, NoDiag, [suffix EXCEPT !.ref = sel.elem])
    [] sel.k = "ProtectedMethod" -> TS("Method", NoType, suffix.des, sel.set, NoDiag, suffix)
    [] OTHER ->
         TS("Err", NoType, "-", {},
            DiagError(SelPos(i), "No declaration of '" \o suffix.des \o "' within "
                                   \o Arena[prefix_typ].desc), suffix)

TypedSelected(i, prefix_typ, suffix) ==
  Selection(type_selected(prefix_typ, suffix.des), i, prefix_typ, suffix)

AccessedAs(typ, suffix) ==
  IF typ # NoType THEN TS("Type", typ, "-", {}, NoDiag, suffix)
  ELSE TS("None", NoType, "-", {}, NoDiag, suffix)

\* .all that leaves the type of the prefix as it is
TypedAll_NoDeref(prefix_typ, suffix) == AccessedAs(prefix_typ, suffix)

TypedAll(prefix_typ, suffix) == AccessedAs(accessed_type(prefix_typ), suffix)

SlicedAs(typ, suffix) ==
  IF typ # NoType THEN TS("Type", typ, "-", {}, NoDiag, analyze_discrete_range(suffix))
  ELSE TS("None", NoType, "-", {}, NoDiag, suffix)

\* The slice of what the prefix points to, whatever the prefix
TypedSlice_AsAccessed(prefix_typ, suffix) == SlicedAs(accessed_type(prefix_typ), suffix)

TypedSlice(prefix_typ, suffix) == SlicedAs(sliced_as(prefix_typ), suffix)

\* The index test with the comparison of the rank inverted
IndexedAs_Inverted(arr, i, suffix) ==
  IF arr.some
  THEN IF Len(suffix.assocs) = arr.rank
       THEN TS("Err", NoType, "-", {}, dimension_mismatch(NamePos(i)), suffix)
       ELSE TS("Type", arr.elem, "-", {}, NoDiag, suffix)
  ELSE TS("None", NoType, "-", {}, NoDiag, suffix)

\* The index test without the check of the rank
IndexedAs_NoRankCheck(arr, i, suffix) ==
  IF arr.some THEN TS("Type", arr.elem, "-", {}, NoDiag, suffix)
  ELSE TS("None", NoType, "-", {}, NoDiag, suffix)

\* arr is array_type() of the prefix, suffix the analyzed associations
IndexedAs(arr, i, suffix) ==
  IF arr.some
  THEN IF Len(suffix.assocs) # arr.rank
       THEN TS("Err", NoType, "-", {}, dimension_mismatch(NamePos(i)), suffix)
       ELSE TS("Type", arr.elem, "-", {}, NoDiag, suffix)
  ELSE TS("None", NoType, "-", {}, NoDiag, suffix)

TypedIndexed(i, prefix_typ, suffix) ==
  IF could_be_indexed_name(suffix.assocs)
  THEN IndexedAs(array_type(prefix_typ), i, analyze_assoc_elems(suffix))
  ELSE TS("None", NoType, "-", {}, NoDiag, suffix)

\* The associations always taken as indexes
SliceOrIndexed_IndexOnly(sliced, dr, indexed, suffix) == indexed

\* sliced is sliced_as() of the prefix, dr the typed-slice test of the
\* associations (made only when the prefix can be sliced) and indexed the
\* result of taking the associations as indexes
SliceOrIndexed(sliced, dr, indexed, suffix) ==
  CASE sliced # NoType /\ dr.k = "Err" ->
         TS("Err", NoType, "-", {}, dr.diag, [suffix EXCEPT !.assocs = dr.assocs])
    [] sliced # NoType /\ dr.k = "Some" ->
         TS("Type", sliced, "-", {}, NoDiag, [suffix EXCEPT !.assocs = dr.assocs])
    [] OTHER -> indexed

RangeOrIndexed(sliced, dr, i, prefix_typ, suffix) ==
  SliceOrIndexed(sliced, dr,
                 TypedIndexed(i, prefix_typ,
                              IF sliced # NoType THEN [suffix EXCEPT !.assocs = dr.assocs]
                              ELSE suffix),
                 suffix)

TypedCallOrIndexed(i, prefix_typ, suffix) ==
  RangeOrIndexed(sliced_as(prefix_typ), assoc_as_discrete_range_type(suffix.assocs, i),
                 i, prefix_typ, suffix)

resolve_typed_suffix(i, prefix_typ, suffix) ==
  CASE suffix.kind = "Selected" -> TypedSelected(i, prefix_typ, suffix)
    [] suffix.kind = "All" -> TypedAll(prefix_typ, suffix)
    [] suffix.kind = "Slice" -> TypedSlice(prefix_typ, suffix)
    [] suffix.kind = "Attribute" -> TS("None", NoType, "-", {}, NoDiag, suffix)
    [] OTHER -> TypedCallOrIndexed(i, prefix_typ, suffix)

(***************************************************************************)
(* name_resolve_with_suffixes: one frame applies the suffix with index i   *)
(* to the resolved prefix (the leaf and the first i - 1 suffixes)          *)
(***************************************************************************)
\* AnalysisResult<Option<ResolvedName>> of a frame; Panic is an abort
RetSome(rn) == [k |-> "Some", rn |-> rn, diag |-> NoDiag]
RetNone == [k |-> "None", rn |-> RN0, diag |-> NoDiag]
RetErr(diag) == [k |-> "Err", rn |-> RN0, diag |-> diag]
RetPanic == [k |-> "Panic", rn |-> RN0, diag |-> NoDiag]

\* A disambiguation call: which function, the target type it was given, what
\* it returned
NoDis == [fn |-> "-", ttyp |-> NoType, k |-> "-", ent |-> NoRef]
Dis(fn, ttyp, d) == [fn |-> fn, ttyp |-> ttyp, k |-> d.k, ent |-> d.ent]

\* What resolve_typed_suffix returned to the frame, "-" when it was not called
NoTyped == [k |-> "-", typ |-> NoType]

\* ret: the frame's return; pushed: what it pushed to the sink; nm: the tree
FrameOut(ret, pushed, nm, dis, typed) ==
  [ret |-> ret, pushed |-> pushed, nm |-> nm, dis |-> dis, typed |-> typed]

\* A prefix resolved with a target type, as the outermost name is
PrefixCallArgs_TargetType == [ttyp |-> "character", has_suffix |-> FALSE]

\* The arguments of the recursive call that resolves a prefix
PrefixCallArgs == [ttyp |-> NoType, has_suffix |-> TRUE]

\* The target type handed to disambiguate by a call frame
DisambiguateTtyp(has_suffix, ttyp) == IF has_suffix THEN NoType ELSE ttyp

\* The collapse that carries a procedure on as the overloaded prefix
Collapsed_ProcedureGoesOn(d, i, resolved) ==
  CASE d.k = "Ambiguous" -> [go |-> FALSE, rn |-> resolved, pushed |-> << >>]
    [] d.k = "Unambiguous" /\ return_type(d.ent) # NoType ->
         [go |-> TRUE, rn |-> RExpression(return_type(d.ent)), pushed |-> << >>]
    [] OTHER -> [go |-> TRUE, rn |-> resolved, pushed |-> << >>]

\* d is the prefix disambiguated with no actuals: go carries the resolved
\* prefix on, otherwise the frame returns None
Collapsed(d, i, resolved) ==
  CASE d.k = "Ambiguous" -> [go |-> FALSE, rn |-> resolved, pushed |-> << >>]
    [] d.k = "Unambiguous" /\ return_type(d.ent) # NoType ->
         [go |-> TRUE, rn |-> RExpression(return_type(d.ent)), pushed |-> << >>]
    [] d.k = "Unambiguous" ->
         [go |-> FALSE, rn |-> resolved, pushed |-> <<ProcedureInExpression(NamePos(i - 1))>>]
    [] OTHER -> [go |-> TRUE, rn |-> resolved, pushed |-> << >>]

\* No suffix collapses an overloaded prefix
MustCollapse_Never(resolved, suffix) == FALSE

\* Any other suffix than a call must collapse overloaded
MustCollapse(resolved, suffix) ==
  suffix.kind # "CallOrIndexed" /\ resolved.kind = "Overloaded"

\* The prefix node already refers to a subprogram: its return type is unwrapped
FastPathTaken(id) == id # NoRef /\ Arena[id].kind = "Overloaded"

FastPath(id) ==
  IF return_type(id) = NoType THEN RetPanic ELSE RetSome(RExpression(return_type(id)))

\* The call frame with the reference of the prefix left unset
Called_NoReference(d, t, nm, i) ==
  CASE d.k = "Unambiguous" /\ return_type(d.ent) # NoType ->
         FrameOut(RetSome(RExpression(return_type(d.ent))), << >>, nm,
                  Dis("disambiguate", t, d), NoTyped)
    [] d.k = "Unambiguous" ->
         FrameOut(RetNone, <<ProcedureInExpression(NamePos(i - 1))>>, nm,
                  Dis("disambiguate", t, d), NoTyped)
    [] OTHER -> FrameOut(RetNone, << >>, nm, Dis("disambiguate", t, d), NoTyped)


\* The call frame that carries an ambiguous call on as an ambiguous expression
Called_AmbiguousGoesOn(d, t, nm, i) ==
  CASE d.k = "Unambiguous" /\ return_type(d.ent) # NoType ->
         FrameOut(RetSome(RExpression(return_type(d.ent))), << >>,
                  set_unique_reference(nm, i - 1, d.ent), Dis("disambiguate", t, d), NoTyped)
    [] d.k = "Unambiguous" ->
         FrameOut(RetNone, <<ProcedureInExpression(NamePos(i - 1))>>,
                  set_unique_reference(nm, i - 1, d.ent), Dis("disambiguate", t, d), NoTyped)
    [] d.k = "Ambiguous" ->
         FrameOut(RetSome(RAmbiguousExpression({"integer", "character"})), << >>, nm,
                  Dis("disambiguate", t, d), NoTyped)
    [] OTHER -> FrameOut(RetNone, << >>, nm, Dis("disambiguate", t, d), NoTyped)

\* d is what disambiguate returned for the target type t; nm is the tree
\* with the actuals analyzed
Called(d, t, nm, i) ==
  CASE d.k = "Unambiguous" /\ return_type(d.ent) # NoType ->
         FrameOut(RetSome(RExpression(return_type(d.ent))), << >>,
                  set_unique_reference(nm, i - 1, d.ent), Dis("disambiguate", t, d), NoTyped)
    [] d.k = "Unambiguous" ->
         FrameOut(RetNone, <<ProcedureInExpression(NamePos(i - 1))>>,
                  set_unique_reference(nm, i - 1, d.ent), Dis("disambiguate", t, d), NoTyped)
    [] OTHER -> FrameOut(RetNone, << >>, nm, Dis("disambiguate", t, d), NoTyped)

OverloadedCall(nm, i, resolved, ttyp, has_suffix) ==
  Called(disambiguate(nm.sfx[i].assocs, DisambiguateTtyp(has_suffix, ttyp), resolved.set),
         DisambiguateTtyp(has_suffix, ttyp),
         [nm EXCEPT !.sfx[i] = analyze_assoc_elems(@)], i)

OverloadedFrame(nm, i, resolved, ttyp, has_suffix) ==
  IF nm.sfx[i].kind = "CallOrIndexed"
  THEN IF FastPathTaken(get_suffix_reference(nm, i - 1))
       THEN FrameOut(FastPath(get_suffix_reference(nm, i - 1)), << >>, nm, NoDis, NoTyped)
       ELSE OverloadedCall(nm, i, resolved, ttyp, has_suffix)
  ELSE FrameOut(RetNone,
                <<unreachable(NamePos(i), "CallOrIndexed should already be handled")>>,
                nm, NoDis, NoTyped)

\* ts is what resolve_typed_suffix returned for the typed prefix resolved
Typed(ts, nm, i, resolved) ==
  CASE ts.k = "Err" -> RetErr(ts.diag)
    [] ts.k = "Type" /\ resolved.kind = "ObjectName" -> RetSome(with_suffix(resolved, ts.typ))
    [] ts.k = "Type" -> RetSome(RExpression(ts.typ))
    [] ts.k = "Method" -> RetSome(ROverloaded(ts.des, SelPos(i), ts.set))
    [] OTHER -> RetErr(cannot_be_prefix(NamePos(i - 1), resolved, nm.sfx[i]))

TypedOut(ts, nm, i, resolved) ==
  FrameOut(Typed(ts, nm, i, resolved), << >>, [nm EXCEPT !.sfx[i] = ts.suffix], NoDis,
           [k |-> ts.k, typ |-> ts.typ])

\* ObjectName and Expression(Unambiguous) prefixes: the typed suffix applier
TypedFrame(nm, i, resolved, prefix_typ) ==
  TypedOut(resolve_typed_suffix(i, prefix_typ, nm.sfx[i]), nm, i, resolved)

PrefixType(resolved) ==
  IF resolved.kind = "ObjectName" THEN ObjectName_type_mark(resolved) ELSE resolved.typ

ValueFrame(nm, i, resolved) ==
  CASE resolved.kind = "ObjectName" /\ type_mark_unreachable(resolved) ->
         FrameOut(RetPanic, << >>, nm, NoDis, NoTyped)
    [] resolved.kind = "Expression" /\ resolved.amb ->
         FrameOut(RetNone, << >>, nm, NoDis, NoTyped)
    [] OTHER -> TypedFrame(nm, i, resolved, PrefixType(resolved))

\* The library lookup taken as found whatever it returned
InLibrary_Unchecked(l, nm, i, resolved) ==
  FrameOut(RetSome(RDesign(l.ent)), << >>, [nm EXCEPT !.sfx[i].ref = l.ent], NoDis, NoTyped)

InLibrary(l, nm, i, resolved) ==
  IF l.ok
  THEN FrameOut(RetSome(RDesign(l.ent)), << >>, [nm EXCEPT !.sfx[i].ref = l.ent],
                NoDis, NoTyped)
  ELSE FrameOut(RetErr(DiagError(SelPos(i), "No primary unit '" \o nm.sfx[i].des
                                              \o "' within library '" \o resolved.des \o "'")),
                << >>, nm, NoDis, NoTyped)

InDesign(named, nm, i, resolved) ==
  CASE named.k = "Err" ->
         FrameOut(RetErr(DiagError(SelPos(i), "No declaration of '" \o nm.sfx[i].des
                                     \o "' within " \o Arena[resolved.ent].desc)),
                  << >>, nm, NoDis, NoTyped)
    [] named.k = "Single" /\ from_design_not_overloaded(named.ent).ok ->
         FrameOut(RetSome(from_design_not_overloaded(named.ent).rn), << >>,
                  [nm EXCEPT !.sfx[i].ref = as_unique(named)], NoDis, NoTyped)
    [] named.k = "Single" ->
         FrameOut(RetErr(DiagError(SelPos(i), from_design_not_overloaded(named.ent).msg)),
                  << >>, [nm EXCEPT !.sfx[i].ref = as_unique(named)], NoDis, NoTyped)
    [] OTHER ->
         FrameOut(RetSome(ROverloaded(nm.sfx[i].des, SelPos(i), named.set)), << >>,
                  [nm EXCEPT !.sfx[i].ref = as_unique(named)], NoDis, NoTyped)

\* Any call on a type taken as a type conversion
UnitFrame_AnyCallConverts(nm, i, resolved) ==
  CASE resolved.kind = "Library" /\ nm.sfx[i].kind = "Selected" ->
         InLibrary(lookup_in_library(resolved.des, nm.sfx[i].des), nm, i, resolved)
    [] resolved.kind = "Design" /\ nm.sfx[i].kind = "Selected" ->
         InDesign(design_selected(resolved.ent, nm.sfx[i].des), nm, i, resolved)
    [] resolved.kind = "Type" /\ nm.sfx[i].kind = "CallOrIndexed" ->
         FrameOut(RetSome(RExpression(resolved.typ)), << >>, nm, NoDis, NoTyped)
    [] OTHER ->
         FrameOut(RetErr(cannot_be_prefix(NamePos(i), resolved, nm.sfx[i])), << >>, nm,
                  NoDis, NoTyped)

\* Library, Design, Type and Final prefixes
UnitFrame(nm, i, resolved) ==
  CASE resolved.kind = "Library" /\ nm.sfx[i].kind = "Selected" ->
         InLibrary(lookup_in_library(resolved.des, nm.sfx[i].des), nm, i, resolved)
    [] resolved.kind = "Design" /\ nm.sfx[i].kind = "Selected" ->
         InDesign(design_selected(resolved.ent, nm.sfx[i].des), nm, i, resolved)
    [] /\ resolved.kind = "Type"
       /\ nm.sfx[i].kind = "CallOrIndexed"
       /\ Len(nm.sfx[i].assocs) = 1
       /\ could_be_indexed_name(nm.sfx[i].assocs) ->
         FrameOut(RetSome(RExpression(resolved.typ)), << >>, nm, NoDis, NoTyped)
    [] OTHER ->
         FrameOut(RetErr(cannot_be_prefix(NamePos(i), resolved, nm.sfx[i])), << >>, nm,
                  NoDis, NoTyped)

\* The attribute frame that leaves the signature and the expression alone
AttributeFrame_Unanalyzed(nm, i) == FrameOut(RetNone, << >>, nm, NoDis, NoTyped)

AttributeFrame(nm, i) ==
  FrameOut(RetNone, << >>, [nm EXCEPT !.sfx[i] = analyze_attribute(@)], NoDis, NoTyped)

DispatchFrame(nm, i, resolved, ttyp, has_suffix) ==
  CASE nm.sfx[i].kind = "Attribute" -> AttributeFrame(nm, i)
    [] resolved.kind = "Overloaded" -> OverloadedFrame(nm, i, resolved, ttyp, has_suffix)
    [] resolved.kind \in {"ObjectName", "Expression"} -> ValueFrame(nm, i, resolved)
    [] OTHER -> UnitFrame(nm, i, resolved)

\* c is the collapse of the overloaded prefix
AfterCollapse(c, nm, i, ttyp, has_suffix, dis) ==
  IF ~c.go THEN FrameOut(RetNone, c.pushed, nm, dis, NoTyped)
  ELSE [DispatchFrame(nm, i, c.rn, ttyp, has_suffix) EXCEPT
          !.dis = IF dis.fn = "-" THEN @ ELSE dis]

NoActuals(d, nm, i, resolved, ttyp, has_suffix) ==
  AfterCollapse(Collapsed(d, i, resolved), nm, i, ttyp, has_suffix,
                Dis("disambiguate_no_actuals", NoType, d))

\* The part of name_resolve_with_suffixes after the prefix has been resolved
SuffixFrame(nm, i, resolved, ttyp, has_suffix) ==
  IF MustCollapse(resolved, nm.sfx[i])
  THEN NoActuals(disambiguate_no_actuals(NoType, resolved.set), nm, i, resolved, ttyp,
                 has_suffix)
  ELSE DispatchFrame(nm, i, resolved, ttyp, has_suffix)

Scoped(named, nm) ==
  CASE named.k = "Err" ->
         FrameOut(RetErr(not_found(NamePos(0), nm.leaf.des)), << >>, nm, NoDis, NoTyped)
    [] named.k = "Single" /\ from_scope_not_overloaded(named.ent).ok ->
         FrameOut(RetSome(from_scope_not_overloaded(named.ent).rn), << >>,
                  [nm EXCEPT !.leaf.ref = named.ent], NoDis, NoTyped)
    [] named.k = "Single" ->
         FrameOut(RetErr(DiagError(NamePos(0), from_scope_not_overloaded(named.ent).msg)),
                  << >>, [nm EXCEPT !.leaf.ref = named.ent], NoDis, NoTyped)
    [] OTHER ->
         FrameOut(RetSome(ROverloaded(nm.leaf.des, NamePos(0), named.set)), << >>, nm,
                  NoDis, NoTyped)

\* The frame of a leaf: a designator looked up in the scope, or an external name
LeafFrame(nm) ==
  IF nm.leaf.kind = "Designator" THEN Scoped(scope_lookup(nm.leaf.des), nm)
  ELSE FrameOut(RetSome(RObjectName(BaseExternalName(nm.leaf.class), nm.leaf.subtype)),
                << >>, nm, NoDis, NoTyped)

(***************************************************************************)
(* Name-to-type adapters                                                   *)
(***************************************************************************)
\* DisambiguatedType
Unambiguous(t) == [amb |-> FALSE, typ |-> t, set |-> {}]
Ambiguous(types) == [amb |-> TRUE, typ |-> NoType, set |-> types]

NT(k, dt, diag, dis) == [k |-> k, dt |-> dt, diag |-> diag, dis |-> dis]

NotAnExpression(pos, rn) == DiagError(pos, describe_type(rn) \o " cannot be used in an expression")

\* Disambiguated::into_type unwraps the return types
into_type(d, dis) ==
  IF d.k = "Unambiguous"
  THEN IF return_type(d.ent) = NoType THEN NT("Panic", Unambiguous(NoType), NoDiag, dis)
       ELSE NT("Some", Unambiguous(return_type(d.ent)), NoDiag, dis)
  ELSE IF \E e \in d.set : return_type(e) = NoType
       THEN NT("Panic", Unambiguous(NoType), NoDiag, dis)
       ELSE NT("Some", Ambiguous({return_type(e) : e \in d.set}), NoDiag, dis)

\* The loop parameter rejected as every Final without a type is
FinalKind_LoopParameterRejected(k, pos, rn) ==
  IF k \in {"PhysicalLiteral", "File", "InterfaceFile"}
  THEN NT("Some", Unambiguous(Arena[rn.ent].typ), NoDiag, NoDis)
  ELSE NT("Err", Unambiguous(NoType), NotAnExpression(pos, rn), NoDis)

FinalKind(k, pos, rn) ==
  CASE k = "LoopParameter" -> NT("None", Unambiguous(NoType), NoDiag, NoDis)
    [] k \in {"PhysicalLiteral", "File", "InterfaceFile"} ->
         NT("Some", Unambiguous(Arena[rn.ent].typ), NoDiag, NoDis)
    [] OTHER -> NT("Err", Unambiguous(NoType), NotAnExpression(pos, rn), NoDis)

FinalToType(pos, rn) == FinalKind(Arena[rn.ent].kind, pos, rn)

\* d is the overloaded name disambiguated with no actuals and no target type
OverloadedToType(d) ==
  IF d.k = "None"
  THEN NT("None", Unambiguous(NoType), NoDiag, Dis("disambiguate_no_actuals", NoType, d))
  ELSE into_type(d, Dis("disambiguate_no_actuals", NoType, d))

name_to_type(pos, rn) ==
  CASE rn.kind \in {"Library", "Design", "Type"} ->
         NT("Err", Unambiguous(NoType), NotAnExpression(pos, rn), NoDis)
    [] rn.kind = "Final" -> FinalToType(pos, rn)
    [] rn.kind = "Overloaded" -> OverloadedToType(disambiguate_no_actuals(NoType, rn.set))
    [] rn.kind = "ObjectName" ->
         IF type_mark_unreachable(rn) THEN NT("Panic", Unambiguous(NoType), NoDiag, NoDis)
         ELSE NT("Some", Unambiguous(ObjectName_type_mark(rn)), NoDiag, NoDis)
    [] OTHER -> NT("Some", IF rn.amb THEN Ambiguous(rn.set) ELSE Unambiguous(rn.typ),
                   NoDiag, NoDis)

ambiguous_call(rn) == DiagError(rn.dpos, "Ambiguous call to '" \o rn.des \o "'")

\* ref: the entity written to suffix_ref when one is given, NoRef for no write
NU(k, typ, diag, ref, dis) == [k |-> k, typ |-> typ, diag |-> diag, ref |-> ref, dis |-> dis]

\* Final names that are never an expression of a known type
FinalToUnambiguous_Untyped(f) ==
  NU(IF f.k = "Some" THEN "None" ELSE f.k, NoType, f.diag, NoRef, NoDis)

FinalToUnambiguous(f) == NU(f.k, f.dt.typ, f.diag, NoRef, NoDis)

\* The adapter that takes the first candidate of an ambiguous name
OverloadedToUnambiguous_TakesAny(d, rn, ttyp) ==
  CASE d.k = "Unambiguous" ->
         NU("Some", return_type(d.ent), NoDiag, d.ent, Dis("disambiguate_no_actuals", ttyp, d))
    [] d.k = "Ambiguous" ->
         NU("Some", return_type(CHOOSE e \in d.set : TRUE), NoDiag,
            CHOOSE e \in d.set : TRUE, Dis("disambiguate_no_actuals", ttyp, d))
    [] OTHER -> NU("None", NoType, NoDiag, NoRef, Dis("disambiguate_no_actuals", ttyp, d))

\* d is the overloaded name disambiguated with no actuals and the target type
OverloadedToUnambiguous(d, rn, ttyp) ==
  CASE d.k = "Unambiguous" /\ return_type(d.ent) = NoType ->
         NU("Panic", NoType, NoDiag, d.ent, Dis("disambiguate_no_actuals", ttyp, d))
    [] d.k = "Unambiguous" ->
         NU("Some", return_type(d.ent), NoDiag, d.ent, Dis("disambiguate_no_actuals", ttyp, d))
    [] d.k = "Ambiguous" ->
         NU("Err", NoType, ambiguous_call(rn), NoRef, Dis("disambiguate_no_actuals", ttyp, d))
    [] OTHER -> NU("None", NoType, NoDiag, NoRef, Dis("disambiguate_no_actuals", ttyp, d))

name_to_unambiguous_type(pos, rn, ttyp) ==
  CASE rn.kind \in {"Library", "Design", "Type"} ->
         NU("Err", NoType, NotAnExpression(pos, rn), NoRef, NoDis)
    [] rn.kind = "Final" -> FinalToUnambiguous(FinalToType(pos, rn))
    [] rn.kind = "Overloaded" ->
         OverloadedToUnambiguous(disambiguate_no_actuals(ttyp, rn.set), rn, ttyp)
    [] rn.kind = "ObjectName" ->
         IF type_mark_unreachable(rn) THEN NU("Panic", NoType, NoDiag, NoRef, NoDis)
         ELSE NU("Some", ObjectName_type_mark(rn), NoDiag, NoRef, NoDis)
    [] OTHER -> IF rn.amb THEN NU("None", NoType, NoDiag, NoRef, NoDis)
                ELSE NU("Some", rn.typ, NoDiag, NoRef, NoDis)

type_mismatch(pos, rn, ttyp) ==
  DiagError(pos, describe_type(rn) \o " does not match " \o Arena[ttyp].desc)

(***************************************************************************)
(* State                                                                   *)
(***************************************************************************)
VARIABLES
  name,         \* the syntax tree: the leaf and the suffixes revealed so far
  open,         \* the name has suffixes beyond those revealed
  pc,           \* start, leaf, suffix, return, done
  level,        \* the number of suffixes applied by the running call
  resolved,     \* the ResolvedName of the prefix resolved so far
  prefix,       \* the ResolvedName the last frame applied its suffix to
  ret,          \* what the last frame of the driver returned
  diagnostics,  \* what the running call pushed to the sink
  entry,        \* the running entry point and its target type
  frame,        \* the ttyp and has_suffix arguments of the last frame
  dis,          \* the disambiguation of the last step
  typed,        \* what resolve_typed_suffix returned in the last step
  passes,       \* the number of entry point calls on this tree
  result        \* what the entry point returned

vars ==
  <<name, open, pc, level, resolved, prefix, ret, diagnostics, entry, frame, dis, typed,
    passes, result>>

TargetTypes == {"integer", "character", "natural"}

EntryPoints ==
  {[fn |-> "name_resolve", ttyp |-> NoType],
   [fn |-> "expression_name_types", ttyp |-> NoType]}
    \cup {[fn |-> "expression_name_with_ttyp", ttyp |-> t] : t \in TargetTypes}

NoResult == [k |-> "-", rn |-> RN0, dt |-> Unambiguous(NoType), diag |-> NoDiag]

Init ==
  /\ name \in {[leaf |-> l, sfx |-> << >>] : l \in Leaves}
  /\ open \in BOOLEAN
  /\ pc = "start"
  /\ level = 0
  /\ resolved = RN0
  /\ prefix = RN0
  /\ ret = RetNone
  /\ diagnostics = << >>
  /\ entry = [fn |-> "-", ttyp |-> NoType]
  /\ frame = [ttyp |-> NoType, has_suffix |-> FALSE]
  /\ dis = NoDis
  /\ typed = NoTyped
  /\ passes = 0
  /\ result = NoResult

\* An entry point is called on the tree
Call(e) ==
  /\ pc \in {"start", "done"}
  /\ passes < MaxPasses
  /\ entry' = e
  /\ pc' = "leaf"
  /\ passes' = passes + 1
  /\ level' = 0
  /\ resolved' = RN0
  /\ prefix' = RN0
  /\ ret' = RetNone
  /\ diagnostics' = << >>
  /\ frame' = [ttyp |-> e.ttyp, has_suffix |-> FALSE]
  /\ dis' = NoDis
  /\ typed' = NoTyped
  /\ result' = NoResult
  /\ UNCHANGED <<name, open>>

\* The frame with i suffixes is entered by a recursive call when the name has
\* more suffixes, and by the entry point otherwise
FrameArgs(more) ==
  IF more THEN PrefixCallArgs ELSE [ttyp |-> entry.ttyp, has_suffix |-> FALSE]

\* The frame whose None does not stop the enclosing frame
AfterFrame_GoesOn(out, i, more) ==
  /\ name' = out.nm
  /\ ret' = out.ret
  /\ diagnostics' = diagnostics \o out.pushed
  /\ dis' = out.dis
  /\ typed' = out.typed
  /\ level' = i
  /\ resolved' = IF out.ret.k = "Some" THEN out.ret.rn ELSE resolved
  /\ prefix' = IF i = 0 THEN RN0 ELSE resolved
  /\ pc' = IF out.ret.k \in {"Some", "None"} /\ more THEN "suffix" ELSE "return"
  /\ frame' = FrameArgs(more)
  /\ UNCHANGED <<entry, passes, result>>

\* A frame returned out: Some goes on to the enclosing frame, if there is one;
\* None (try_unknown) and errors (?) leave the driver
AfterFrame(out, i, more) ==
  /\ name' = out.nm
  /\ ret' = out.ret
  /\ diagnostics' = diagnostics \o out.pushed
  /\ dis' = out.dis
  /\ typed' = out.typed
  /\ level' = i
  /\ resolved' = IF out.ret.k = "Some" THEN out.ret.rn ELSE resolved
  /\ prefix' = IF i = 0 THEN RN0 ELSE resolved
  /\ pc' = IF out.ret.k = "Some" /\ more THEN "suffix" ELSE "return"
  /\ frame' = FrameArgs(more)
  /\ UNCHANGED <<entry, passes, result>>

ResolveLeaf ==
  /\ pc = "leaf"
  /\ AfterFrame(LeafFrame(name), 0, Len(name.sfx) > 0 \/ open)
  /\ UNCHANGED open

\* The frame that applies suffix i of the tree nm runs
ApplySuffix(nm, i, more) ==
  AfterFrame(SuffixFrame(nm, i, resolved, FrameArgs(more).ttyp, FrameArgs(more).has_suffix),
             i, more)

\* The next suffix is in the tree already (an earlier call revealed it)
WalkSuffix ==
  /\ pc = "suffix"
  /\ level < Len(name.sfx)
  /\ ApplySuffix(name, level + 1, level + 1 < Len(name.sfx) \/ open)
  /\ UNCHANGED open

\* The next suffix of the name is revealed and applied
RevealSuffix ==
  /\ pc = "suffix"
  /\ level = Len(name.sfx)
  /\ open
  /\ \E s \in SuffixForms, more \in BOOLEAN :
       /\ more => level + 1 < MaxSuffixes
       /\ open' = more
       /\ ApplySuffix([name EXCEPT !.sfx = Append(@, s)], level + 1, more)

Returned(r) ==
  /\ pc' = "done"
  /\ result' = r
  /\ UNCHANGED <<open, level, resolved, prefix, ret, entry, frame, typed, passes>>

\* name_resolve returns what the driver returned
Return_name_resolve ==
  /\ pc = "return"
  /\ entry.fn = "name_resolve"
  /\ Returned([NoResult EXCEPT !.k = ret.k, !.rn = ret.rn, !.diag = ret.diag])
  /\ UNCHANGED <<name, diagnostics, dis>>


\* t is name_to_type of what the driver returned
TypesReturned(t) ==
  CASE ret.k = "Some" ->
         /\ Returned([NoResult EXCEPT !.k = IF t.k = "Err" THEN "None" ELSE t.k, !.dt = t.dt])
         /\ diagnostics' = IF t.k = "Err" THEN Append(diagnostics, t.diag) ELSE diagnostics
         /\ dis' = t.dis
    [] ret.k = "Err" ->
         /\ Returned([NoResult EXCEPT !.k = "None"])
         /\ diagnostics' = Append(diagnostics, ret.diag)
         /\ dis' = NoDis
    [] OTHER ->
         /\ Returned([NoResult EXCEPT !.k = ret.k])
         /\ UNCHANGED diagnostics
         /\ dis' = NoDis

Return_expression_name_types ==
  /\ pc = "return"
  /\ entry.fn = "expression_name_types"
  /\ TypesReturned(name_to_type(NamePos(Len(name.sfx)), ret.rn))
  /\ UNCHANGED name

\* t is name_to_unambiguous_type of what the driver returned, at pos
TtypReturned(t, pos) ==
  CASE ret.k = "Some" ->
         /\ Returned([NoResult EXCEPT !.k = IF t.k = "Panic" THEN "Panic" ELSE "Unit"])
         /\ name' = IF t.ref # NoRef THEN set_unique_reference(name, Len(name.sfx), t.ref)
                    ELSE name
         /\ diagnostics' =
              CASE t.k = "Err" -> Append(diagnostics, t.diag)
                [] t.k = "Some" /\ ~can_be_target_type(t.typ, base_type(entry.ttyp)) ->
                     Append(diagnostics, type_mismatch(pos, ret.rn, entry.ttyp))
                [] OTHER -> diagnostics
         /\ dis' = t.dis
    [] ret.k = "Err" ->
         /\ Returned([NoResult EXCEPT !.k = "Unit"])
         /\ diagnostics' = Append(diagnostics, ret.diag)
         /\ dis' = NoDis
         /\ UNCHANGED name
    [] OTHER ->
         /\ Returned([NoResult EXCEPT !.k = IF ret.k = "Panic" THEN "Panic" ELSE "Unit"])
         /\ UNCHANGED <<name, diagnostics>>
         /\ dis' = NoDis

Return_expression_name_with_ttyp ==
  /\ pc = "return"
  /\ entry.fn = "expression_name_with_ttyp"
  /\ TtypReturned(name_to_unambiguous_type(NamePos(Len(name.sfx)), ret.rn, entry.ttyp),
                  NamePos(Len(name.sfx)))

Next ==
  \/ \E e \in EntryPoints : Call(e)
  \/ ResolveLeaf
  \/ WalkSuffix
  \/ RevealSuffix
  \/ Return_name_resolve
  \/ Return_expression_name_types
  \/ Return_expression_name_with_ttyp

Spec == Init /\ [][Next]_vars

(***************************************************************************)
(* Properties                                                              *)
(***************************************************************************)
\* The last step was a frame of the driver that applied the suffix with the
\* index level to prefix
SuffixApplied == pc \in {"suffix", "return"} /\ level >= 1

\* The frame applied a call to an overloaded prefix and disambiguate selected
\* the subprogram dis.ent
CallSelects ==
  /\ SuffixApplied
  /\ prefix.kind = "Overloaded"
  /\ name.sfx[level].kind = "CallOrIndexed"
  /\ dis.fn = "disambiguate"
  /\ dis.k = "Unambiguous"

ProcedureMessage == "Procedure calls are not valid in names and expressions"

\* C1: a call applied to an overloaded prefix for which disambiguate returns
\* Unambiguous(ent), ent a function returning T, makes the driver return
\* Expression(Unambiguous(T)) and sets the reference of the prefix node to ent
C1_CallResult ==
  (CallSelects /\ return_type(dis.ent) # NoType)
    => /\ ret = RetSome(RExpression(return_type(dis.ent)))
       /\ get_suffix_reference(name, level - 1) = dis.ent

\* fun(c0) resolved with the target type character: fun_c is selected
C1_Witness ==
  /\ pc = "return"
  /\ level = 1
  /\ name.leaf.des = "fun"
  /\ name.sfx[1].kind = "CallOrIndexed"
  /\ dis.fn = "disambiguate"
  /\ dis.k = "Unambiguous"
  /\ dis.ent = "fun_c"
  /\ ret = RetSome(RExpression("character"))
  /\ name.leaf.ref = "fun_c"

\* The name is an overloaded designator, bare or called, whose candidates all
\* accept the actuals and differ only in return type, resolved by
\* expression_name_with_ttyp with the return type of exactly one candidate
C2_Case ==
  /\ pc = "done"
  /\ entry.fn = "expression_name_with_ttyp"
  /\ ~open
  /\ name.leaf.kind = "Designator"
  /\ name.leaf.des \in ScopeOverloaded
  /\ Len(name.sfx) <= 1
  /\ Len(name.sfx) = 1 => name.sfx[1].kind = "CallOrIndexed"
  /\ \A e \in OverloadedSets[name.leaf.des] :
       IF Len(name.sfx) = 1 THEN AcceptsActuals(e, name.sfx[1].assocs)
       ELSE Arena[e].formals = << >>
  /\ \A e1, e2 \in OverloadedSets[name.leaf.des] : Arena[e1].formals = Arena[e2].formals
  /\ Cardinality({e \in OverloadedSets[name.leaf.des] : return_type(e) = entry.ttyp}) = 1

\* C2: for an overloaded name, a call or a bare designator, whose candidates
\* all accept the actuals and differ only in return type,
\* expression_name_with_ttyp with the return type T of exactly one candidate
\* selects that candidate, records it in the reference of the name and pushes
\* no diagnostic
C2_TargetTypeSelects ==
  C2_Case =>
    /\ name.leaf.ref \in OverloadedSets[name.leaf.des]
    /\ return_type(name.leaf.ref) = entry.ttyp
    /\ diagnostics = << >>
    /\ result.k = "Unit"

\* C2 on a tree that no earlier call has resolved
C2_FirstPass == passes = 1 => C2_TargetTypeSelects

\* The driver selected a procedure: by a call, or by the collapse before a
\* suffix that is no call
ProcedureSelected ==
  /\ SuffixApplied
  /\ prefix.kind = "Overloaded"
  /\ dis.fn \in {"disambiguate", "disambiguate_no_actuals"}
  /\ dis.k = "Unambiguous"
  /\ return_type(dis.ent) = NoType

\* C3: when overload resolution in the driver, by a call with actuals or by
\* the collapse before a suffix that is no call, selects a procedure, the
\* driver returns None and pushes exactly one error, 'Procedure calls are not
\* valid in names and expressions', at the prefix
C3_ProcedureInExpression ==
  ProcedureSelected
    => /\ ret = RetNone
       /\ pc = "return"
       /\ diagnostics = <<DiagError(NamePos(level - 1), ProcedureMessage)>>

\* proc(0), a call, and proc0.fld, a collapse
C3_Witness ==
  /\ pc = "return"
  /\ level = 1
  /\ ret = RetNone
  /\ dis.k = "Unambiguous"
  /\ \/ dis.fn = "disambiguate" /\ dis.ent = "proc" /\ name.sfx[1].kind = "CallOrIndexed"
     \/ dis.fn = "disambiguate_no_actuals" /\ dis.ent = "proc0" /\ name.sfx[1].kind = "Selected"
  /\ diagnostics = <<DiagError(NamePos(0), ProcedureMessage)>>


\* ---------------------------------------------------------------------------
\* Reference slots written by the running call
\* ---------------------------------------------------------------------------

\* A frame of the running call has returned
FrameRan == pc \in {"suffix", "return", "done"}

LastSuffix_kind == IF level = 0 THEN "-" ELSE name.sfx[level].kind

One(b) == IF b THEN 1 ELSE 0

\* The writes of an entity to the reference slot of the last designator of the
\* name resolved so far: by the leaf (names.rs 579), by the selection from a
\* library (778-783) or a design unit (788-789), by the selection of a record
\* element (498) and by the adapter after the driver (404-406)
LeafWrote ==
  /\ level = 0
  /\ name.leaf.kind = "Designator"
  /\ scope_lookup(name.leaf.des).k = "Single"

LibraryWrote ==
  /\ LastSuffix_kind = "Selected"
  /\ prefix.kind = "Library"
  /\ lookup_in_library(prefix.des, name.sfx[level].des).ok

DesignWrote ==
  /\ LastSuffix_kind = "Selected"
  /\ prefix.kind = "Design"
  /\ as_unique(design_selected(prefix.ent, name.sfx[level].des)) # NoRef

ElementWrote ==
  /\ LastSuffix_kind = "Selected"
  /\ prefix.kind \in {"ObjectName", "Expression"}
  /\ typed.k = "Type"

AdapterWrote ==
  /\ pc = "done"
  /\ entry.fn = "expression_name_with_ttyp"
  /\ ret.k = "Some"
  /\ ret.rn.kind = "Overloaded"
  /\ HasSuffixReference(name, level)
  /\ dis.fn = "disambiguate_no_actuals"
  /\ dis.k = "Unambiguous"

LastSlotWrites ==
  One(LeafWrote) + One(LibraryWrote) + One(DesignWrote) + One(ElementWrote)
    + One(AdapterWrote)

\* The writes to the reference slot of the prefix of a call: by the selection
\* of a unique subprogram from a design unit (788-789; protected methods are
\* declared in no unit) and by the call frame after disambiguate (695)
PrefixSelectedFromDesign ==
  /\ level >= 2
  /\ name.sfx[level - 1].kind = "Selected"
  /\ prefix.kind = "Overloaded"
  /\ prefix.des \in ScopeOverloaded
  /\ Cardinality(prefix.set) = 1

CallWrote ==
  /\ pc \in {"suffix", "return"}
  /\ LastSuffix_kind = "CallOrIndexed"
  /\ prefix.kind = "Overloaded"
  /\ HasSuffixReference(name, level - 1)
  /\ dis.fn = "disambiguate"
  /\ dis.k = "Unambiguous"

PrefixSlotWrites == One(PrefixSelectedFromDesign) + One(CallWrote)

\* The last frame applied a CallOrIndexed suffix to a prefix that has a type
TypedCall ==
  /\ LastSuffix_kind = "CallOrIndexed"
  /\ prefix.kind \in {"ObjectName", "Expression"}
  /\ typed.k # "-"

\* The writes to the reference slot of the actual j of that suffix: by
\* name_resolve when the actual is tried as the type of a discrete range
\* (466, 579) and by the analysis of the actuals as indexes (531)
RangeWrote(j) ==
  /\ TypedCall
  /\ sliced_as(PrefixType(prefix)) # NoType
  /\ could_be_indexed_name(name.sfx[level].assocs)
  /\ Len(name.sfx[level].assocs) = 1
  /\ name.sfx[level].assocs[j].actual = "Name"
  /\ scope_lookup(name.sfx[level].assocs[j].des).k = "Single"

IndexWrote(j) ==
  /\ TypedCall
  /\ could_be_indexed_name(name.sfx[level].assocs)
  /\ ~(/\ sliced_as(PrefixType(prefix)) # NoType
       /\ assoc_as_discrete_range_type(name.sfx[level].assocs, level).k \in {"Some", "Err"})
  /\ name.sfx[level].assocs[j].actual = "Name"
  /\ scope_lookup(name.sfx[level].assocs[j].des).k = "Single"

ActualWrites(j) == One(RangeWrote(j)) + One(IndexWrote(j))

\* C33: during one call of an entry point, the adapter after the driver
\* included, each reference slot of the syntax tree is written at most once:
\* the slot of the last designator, the slot of the prefix of a call and the
\* slot of each actual
C33_WrittenOnce ==
  FrameRan =>
    /\ LastSlotWrites <= 1
    /\ PrefixSlotWrites <= 1
    /\ \A j \in 1..Len(IF level = 0 THEN << >> ELSE name.sfx[level].assocs) :
         ActualWrites(j) <= 1

\* v_arr(c0), v_arr an array: name_resolve on the actual as a range type and the
\* analysis of the actual as an index both write its reference
C33_ActualRewritten ==
  /\ FrameRan
  /\ passes = 1
  /\ RangeWrote(1)
  /\ IndexWrote(1)
  /\ name.sfx[level].assocs[1].ref = "c0"

\* ---------------------------------------------------------------------------
\* An unresolved prefix
\* ---------------------------------------------------------------------------

\* A frame returned None below the outermost level of the name
PrefixIsNone ==
  /\ FrameRan
  /\ ret.k = "None"
  /\ open \/ level < Len(name.sfx)

\* C34: when the prefix of a name resolves to None no enclosing frame runs: the
\* driver returns None for the whole name, no suffix above the prefix is
\* analyzed, no reference is written and no further diagnostic is pushed
C34_NonePropagates ==
  /\ [](PrefixIsNone => pc \in {"return", "done"})
  /\ [][PrefixIsNone /\ pc = "return" =>
          /\ pc' = "done"
          /\ name' = name
          /\ diagnostics' = diagnostics
          /\ level' = level
          /\ result'.k = IF entry.fn = "expression_name_with_ttyp" THEN "Unit" ELSE "None"
          /\ result'.rn = RN0]_vars

\* alpha.all followed by more suffixes, alpha ambiguous without actuals: the
\* call returned None after the first suffix
C34_Witness ==
  /\ pc = "done"
  /\ PrefixIsNone
  /\ open
  /\ level = 1
  /\ name.leaf.des = "alpha"
  /\ name.sfx[1].kind = "All"
  /\ result.k = "None"
  /\ diagnostics = << >>

\* A procedure as prefix: one diagnostic by the frame that found it, none after
C34_ProcedureWitness ==
  /\ pc = "done"
  /\ PrefixIsNone
  /\ name.leaf.des = "proc0"
  /\ Len(diagnostics) = 1
  /\ result.k = "None"

\* ---------------------------------------------------------------------------
\* The fast path of a call on an already referenced prefix
\* ---------------------------------------------------------------------------

\* The next frame applies a CallOrIndexed suffix to an Overloaded prefix whose
\* node carries a reference to a subprogram
CallOnReferenced ==
  /\ pc = "suffix"
  /\ level' = level + 1
  /\ resolved.kind = "Overloaded"
  /\ name'.sfx[level + 1].kind = "CallOrIndexed"
  /\ FastPathTaken(get_suffix_reference(name, level))

\* The frame left the tree alone: no actual was analyzed, no reference written
ActualsUntouched ==
  /\ name'.leaf = name.leaf
  /\ \A j \in 1..level : name'.sfx[j] = name.sfx[j]
  /\ name'.sfx[level + 1].analyzed =
       IF level < Len(name.sfx) THEN name.sfx[level + 1].analyzed ELSE 0
  /\ \A j \in 1..Len(name'.sfx[level + 1].assocs) :
       name'.sfx[level + 1].assocs[j].ref =
         IF level < Len(name.sfx) THEN name.sfx[level + 1].assocs[j].ref ELSE NoRef

NoDisambiguation ==
  /\ dis' = NoDis
  /\ typed' = NoTyped
  /\ diagnostics' = diagnostics

\* C35: a CallOrIndexed suffix on an Overloaded prefix whose node already
\* carries a reference to a subprogram returns Expression(Unambiguous(return
\* type of that subprogram)), without disambiguate, without analyzing the
\* actuals and whatever the target type
C35_FastPath ==
  [][CallOnReferenced =>
       /\ ret' = RetSome(RExpression(return_type(get_suffix_reference(name, level))))
       /\ ActualsUntouched
       /\ NoDisambiguation]_vars

\* The same unless the referenced subprogram is a procedure, which has no
\* return type to unwrap
C35_UnlessProcedure ==
  [][CallOnReferenced /\ return_type(get_suffix_reference(name, level)) # NoType =>
       /\ ret' = RetSome(RExpression(return_type(get_suffix_reference(name, level))))
       /\ ActualsUntouched
       /\ NoDisambiguation]_vars

\* fun(0) resolved a second time, with the target type character: the fast
\* path returns the integer of the first resolution
C35_StaleWitness ==
  /\ pc = "return"
  /\ passes = 2
  /\ level = 1
  /\ ~open
  /\ name.leaf.des = "fun"
  /\ name.leaf.ref = "fun_i"
  /\ entry.ttyp = "character"
  /\ dis = NoDis
  /\ ret = RetSome(RExpression("integer"))

\* pkg.proc(0): the reference set by the selection is a procedure
C35_ProcedureWitness ==
  /\ pc = "return"
  /\ level = 2
  /\ name.sfx[1].ref = "proc"
  /\ name.sfx[2].kind = "CallOrIndexed"
  /\ dis = NoDis
  /\ ret.k = "Panic"

\* ---------------------------------------------------------------------------
\* The branch marked unreachable
\* ---------------------------------------------------------------------------

UnreachableEmitted ==
  \E n \in 1..Len(diagnostics) :
    diagnostics[n].msg
      = "Internal error, unreachable code CallOrIndexed should already be handled"

\* C36: the warning 'Internal error, unreachable code CallOrIndexed should
\* already be handled' is never emitted: after the collapse a prefix that is
\* still Overloaded has a CallOrIndexed suffix (or an attribute, which returns
\* before), whatever the overloaded set
C36_NeverUnreachable == ~UnreachableEmitted

\* fun.all, no candidate of fun without parameters: the collapse finds nothing,
\* the prefix stays Overloaded and the warning is pushed at the name
C36_Emitted ==
  /\ pc = "return"
  /\ level = 1
  /\ name.leaf.des = "fun"
  /\ name.sfx[1].kind = "All"
  /\ prefix.kind = "Overloaded"
  /\ dis.fn = "disambiguate_no_actuals"
  /\ dis.k = "None"
  /\ ret = RetNone
  /\ diagnostics = <<unreachable(NamePos(1), "CallOrIndexed should already be handled")>>

\* ---------------------------------------------------------------------------
\* Expressions made by the driver
\* ---------------------------------------------------------------------------

IsAmbiguousExpression(rn) == rn.kind = "Expression" /\ rn.amb

\* C37: every Expression the driver returns, or applies a suffix to, is
\* Expression(Unambiguous(_)): the driver makes no Expression(Ambiguous(_)) and
\* its branch for one is never taken
C37_OnlyUnambiguous ==
  /\ ~IsAmbiguousExpression(ret.rn)
  /\ ~IsAmbiguousExpression(resolved)
  /\ ~IsAmbiguousExpression(prefix)
  /\ result.rn.kind = "Expression" => ~result.rn.amb

\* foo().fld: the call made an Expression that the next frame took as prefix
C37_Witness ==
  /\ pc = "return"
  /\ level = 2
  /\ name.leaf.des = "foo"
  /\ name.sfx[1].kind = "CallOrIndexed"
  /\ name.sfx[2].kind = "Selected"
  /\ prefix = RExpression("rec_t")
  /\ typed.k = "Type"
  /\ ret.rn.kind = "Expression"

\* A type conversion returns the Expression of the type
C37_ConversionWitness ==
  /\ pc = "done"
  /\ prefix.kind = "Type"
  /\ result.rn.kind = "Expression"
  /\ result.rn.typ = prefix.typ

\* What the frame returns when it disambiguates the call in full: the
\* candidates of the prefix, the actuals of the suffix and the target type of
\* the frame
FullDisambiguation ==
  OverloadedCall(name', level + 1, resolved, frame'.ttyp, frame'.has_suffix).ret

\* C38: the fast path agrees with the full disambiguation: whenever a call
\* frame takes the shortcut of the referenced subprogram it returns what
\* disambiguate gives for the same candidates, actuals and target type
C38_FastPathAgrees == [][CallOnReferenced => ret' = FullDisambiguation]_vars

\* fun(0) resolved with the target type integer and again with character: the
\* second call returns integer where disambiguate selects fun[.. return CHARACTER]
C38_StaleTargetType ==
  /\ C35_StaleWitness
  /\ disambiguate(name.sfx[1].assocs, "character", OverloadedSets["fun"]).k = "Unambiguous"
  /\ disambiguate(name.sfx[1].assocs, "character", OverloadedSets["fun"]).ent = "fun_c"

\* pkg.foo(0): the selection from the unit set the reference to the only foo,
\* which takes no parameter; the fast path returns its type where disambiguate
\* finds no candidate
C38_SelectedUnique ==
  /\ pc = "return"
  /\ passes = 1
  /\ level = 2
  /\ prefix.kind = "Overloaded"
  /\ name.sfx[1].ref = "foo"
  /\ name.sfx[2].kind = "CallOrIndexed"
  /\ Len(name.sfx[2].assocs) = 1
  /\ dis = NoDis
  /\ ret = RetSome(RExpression("rec_t"))
  /\ disambiguate(name.sfx[2].assocs, NoType, {"foo"}).k = "None"
\* The frame applied a suffix that is no call and no attribute to an
\* overloaded prefix
NonCallOnOverloaded ==
  /\ SuffixApplied
  /\ prefix.kind = "Overloaded"
  /\ name.sfx[level].kind \in {"Selected", "All", "Slice"}

\* C4: before a Selected, All or Slice suffix an overloaded prefix is
\* disambiguated with no actuals and no target type; when that yields a unique
\* function returning T, the suffix is applied to Expression(Unambiguous(T)),
\* and a name that resolves resolves to an Expression
C4_CollapseBeforeSuffix ==
  NonCallOnOverloaded
    => /\ dis = Dis("disambiguate_no_actuals", NoType,
                    disambiguate_no_actuals(NoType, prefix.set))
       /\ (dis.k = "Unambiguous" /\ return_type(dis.ent) # NoType)
            => /\ ret = Typed(resolve_typed_suffix(level, return_type(dis.ent),
                                                   name.sfx[level]),
                              name, level, RExpression(return_type(dis.ent)))
               /\ typed.k # "-"
               /\ ret.k = "Some" => ret.rn.kind = "Expression"

\* foo.fld: the parameterless function foo returns a record with the field
\* fld of type natural
C4_Witness ==
  /\ pc = "return"
  /\ level = 1
  /\ name.leaf.des = "foo"
  /\ name.sfx[1].kind = "Selected"
  /\ name.sfx[1].des = "fld"
  /\ dis.fn = "disambiguate_no_actuals"
  /\ dis.ent = "foo"
  /\ ret = RetSome(RExpression("natural"))

\* The last disambiguation was that of a call that is the outermost suffix
OutermostCall ==
  /\ dis.fn = "disambiguate"
  /\ pc = "return"
  /\ level >= 1
  /\ level = Len(name.sfx)
  /\ ~open
  /\ name.sfx[level].kind = "CallOrIndexed"
  /\ dis.ttyp = entry.ttyp

\* The last disambiguation was that of name_to_unambiguous_type, for a name
\* that the driver resolved to Overloaded as a whole
WholeNameOverloaded ==
  /\ dis.fn = "disambiguate_no_actuals"
  /\ pc = "done"
  /\ entry.fn = "expression_name_with_ttyp"
  /\ ret.k = "Some"
  /\ ret.rn.kind = "Overloaded"
  /\ dis.ttyp = entry.ttyp

\* A frame that resolved a prefix was called with no target type and with
\* has_suffix, and its disambiguation had no target type
PrefixFrames ==
  (pc \in {"suffix", "return"} /\ (level < Len(name.sfx) \/ open))
    => /\ frame = [ttyp |-> NoType, has_suffix |-> TRUE]
       /\ dis.ttyp = NoType

\* C5 as stated: the target type reaches overload disambiguation only for a
\* call that is the outermost suffix of the name
C5_OnlyOutermostCall ==
  /\ dis.ttyp # NoType => OutermostCall
  /\ PrefixFrames

\* C5: in the driver the target type reaches overload disambiguation only for
\* a call that is the outermost suffix of the name: every prefix is resolved
\* with target type None and has_suffix = true, and a call followed by a
\* further suffix is disambiguated with target type None; outside the driver,
\* name_to_unambiguous_type hands the target type to disambiguate_no_actuals
\* for a name that resolves to Overloaded as a whole
C5_TargetTypeReach ==
  /\ dis.ttyp # NoType => (OutermostCall \/ WholeNameOverloaded)
  /\ PrefixFrames

\* fun(0).fld with the target type character: the call, a prefix, was
\* disambiguated with no target type and is ambiguous
C5_Witness ==
  /\ pc = "return"
  /\ entry = [fn |-> "expression_name_with_ttyp", ttyp |-> "character"]
  /\ name.leaf.des = "fun"
  /\ level = 1
  /\ open
  /\ name.sfx[1].kind = "CallOrIndexed"
  /\ frame = [ttyp |-> NoType, has_suffix |-> TRUE]
  /\ dis = [fn |-> "disambiguate", ttyp |-> NoType, k |-> "Ambiguous", ent |-> NoRef]

\* The frame applied a call-or-index suffix to a typed prefix: an ObjectName
\* or an unambiguous Expression
TypedPrefix ==
  /\ SuffixApplied
  /\ prefix.kind \in {"ObjectName", "Expression"}
  /\ ~prefix.amb
  /\ ~(prefix.kind = "ObjectName" /\ type_mark_unreachable(prefix))
  /\ name.sfx[level].kind = "CallOrIndexed"

\* The associations of the suffix the frame applied
Assocs == name.sfx[level].assocs

\* The actual of a is a name that denotes a type
NamesType(a) ==
  /\ a.actual = "Name"
  /\ scope_lookup(a.des).k = "Single"
  /\ Arena[scope_lookup(a.des).ent].kind = "Type"

\* The single positional association of the suffix names a type and the
\* prefix can be sliced: the typed slice test decides
TypedSliceForm ==
  /\ Len(Assocs) = 1
  /\ could_be_indexed_name(Assocs)
  /\ NamesType(Assocs[1])
  /\ sliced_as(PrefixType(prefix)) # NoType

\* The name of the kind of the prefix with the type t
SameKind(t) == IF prefix.kind = "ObjectName" THEN with_suffix(prefix, t) ELSE RExpression(t)

DimensionMismatchCase ==
  /\ TypedPrefix
  /\ could_be_indexed_name(Assocs)
  /\ array_type(PrefixType(prefix)).some
  /\ Len(Assocs) # array_type(PrefixType(prefix)).rank
  /\ ~TypedSliceForm

DimensionMessage == "Number of indexes does not match array dimension"

DiscreteTypeName(a) ==
  /\ NamesType(a)
  /\ Arena[base_type(scope_lookup(a.des).ent)].tk \in {"Enum", "Integer"}

\* C8: when the prefix type can be sliced as T and the suffix has exactly one
\* positional association, not open, that names a type with an enumeration or
\* integer base, the suffix is a typed slice and the result has the type T,
\* the array type, whatever the rank
C8_TypedSlice ==
  (TypedPrefix /\ TypedSliceForm /\ DiscreteTypeName(Assocs[1]))
    => /\ ret = RetSome(SameKind(sliced_as(PrefixType(prefix))))
       /\ typed = [k |-> "Type", typ |-> sliced_as(PrefixType(prefix))]
       /\ diagnostics = << >>

\* v_mat(natural): the two-dimensional matrix_t sliced by a type name
C8_Witness ==
  /\ pc \in {"suffix", "return"}
  /\ level = 1
  /\ name.leaf.des = "v_mat"
  /\ name.sfx[1].kind = "CallOrIndexed"
  /\ Len(name.sfx[1].assocs) = 1
  /\ name.sfx[1].assocs[1].des = "natural"
  /\ ret.k = "Some"
  /\ ret.rn.kind = "ObjectName"
  /\ ret.rn.typ = "matrix_t"

\* C9: when a prefix that can be sliced is followed by a single positional
\* association that names a type whose base is neither an enumeration nor an
\* integer type, resolution fails with the error '<type> cannot be used as a
\* discrete range' at the argument, and the name is not taken as an indexed
\* name
C9_InvalidDiscreteRange ==
  (TypedPrefix /\ TypedSliceForm /\ ~DiscreteTypeName(Assocs[1]))
    => /\ ret = RetErr(DiagError(ArgPos(level, 1),
                                  Arena[scope_lookup(Assocs[1].des).ent].desc
                                    \o " cannot be used as a discrete range"))
       /\ typed.k = "Err"
       /\ name.sfx[level].analyzed = 0
       /\ pc = "return"

\* v_arr(real)
C9_Witness ==
  /\ pc = "return"
  /\ level = 1
  /\ name.leaf.des = "v_arr"
  /\ name.sfx[1].kind = "CallOrIndexed"
  /\ Len(name.sfx[1].assocs) = 1
  /\ name.sfx[1].assocs[1].des = "real"
  /\ ret.k = "Err"
  /\ ret.diag.pos = ArgPos(1, 1)
  /\ ret.diag.msg = Arena["real"].desc \o " cannot be used as a discrete range"

\* describe() of the typed prefix: without its type
DescribedWithoutType ==
  IF prefix.kind = "Expression" THEN "Expression" ELSE ObjectBase_describe(prefix.base)

\* C10: a call-or-index suffix with a named association or an open actual on
\* an ObjectName or Expression fails with '<describe() of the prefix, without
\* type> cannot be called as a function' at the prefix, also when the prefix
\* is an array; with positional associations, none open, on a prefix that is
\* no array the error is '<description with the type> cannot be indexed'
C10_CannotBePrefix ==
  /\ (TypedPrefix /\ ~could_be_indexed_name(Assocs))
       => /\ ret = RetErr(DiagError(NamePos(level - 1), DescribedWithoutType
                                       \o " cannot be called as a function"))
          /\ pc = "return"
  /\ (/\ TypedPrefix
      /\ could_be_indexed_name(Assocs)
      /\ ~array_type(PrefixType(prefix)).some)
       => /\ ret = RetErr(DiagError(NamePos(level - 1), describe_type(prefix)
                                       \o " cannot be indexed"))
          /\ pc = "return"

\* v_arr(open), v_arr an array
C10_Witness ==
  /\ pc = "return"
  /\ level = 1
  /\ name.leaf.des = "v_arr"
  /\ name.sfx[1].kind = "CallOrIndexed"
  /\ Len(name.sfx[1].assocs) = 1
  /\ name.sfx[1].assocs[1].actual = "Open"
  /\ ret = RetErr(DiagError(NamePos(0), Arena["v_arr"].desc \o " cannot be called as a function"))


\* The frame applied its suffix to a typed prefix: an ObjectName or an
\* unambiguous Expression
ValuePrefix ==
  /\ SuffixApplied
  /\ prefix.kind \in {"ObjectName", "Expression"}
  /\ ~prefix.amb
  /\ ~(prefix.kind = "ObjectName" /\ type_mark_unreachable(prefix))

\* The kind of the base type of the prefix
PrefixTk == Arena[base_type(PrefixType(prefix))].tk

\* The type the access type of the prefix points to
Pointee == Arena[base_type(PrefixType(prefix))].of

SliceApplied == ValuePrefix /\ name.sfx[level].kind = "Slice"

\* C11: a Slice suffix on a prefix of array type T yields the type T, on a
\* prefix of a type that is an access to the array type T it yields T; hence a
\* second Slice applied to the result of a slice leaves the resolved name
\* unchanged, for ObjectName and Expression prefixes alike
C11_SliceKeepsType ==
  /\ (SliceApplied /\ PrefixTk = "Array")
       => ret = RetSome(SameKind(PrefixType(prefix)))
  /\ (SliceApplied /\ PrefixTk = "Access" /\ Arena[base_type(Pointee)].tk = "Array")
       => ret = RetSome(SameKind(Pointee))
  /\ (SliceApplied /\ level >= 2 /\ name.sfx[level - 1].kind = "Slice")
       => ret = RetSome(prefix)

\* vptr(1 to 2)(1 to 2), vptr of the access type ptr_t to integer_vector: the
\* first slice gave integer_vector, the second leaves the name as it is
C11_Witness ==
  /\ pc = "return"
  /\ level = 2
  /\ name.leaf.des = "vptr"
  /\ name.sfx[1].kind = "Slice"
  /\ name.sfx[2].kind = "Slice"
  /\ prefix = RObjectName(BaseObject("vptr"), "integer_vector")
  /\ ret = RetSome(prefix)

AllApplied == ValuePrefix /\ name.sfx[level].kind = "All"

\* C12: an All suffix on a typed prefix of an access type yields the same kind
\* of name with the accessed type; on a prefix whose type is no access type
\* the frame fails with '<prefix with its type> cannot be accessed with .all'
\* at the prefix and resolves no name
C12_AccessAll ==
  /\ (AllApplied /\ PrefixTk = "Access") => ret = RetSome(SameKind(Pointee))
  /\ (AllApplied /\ PrefixTk # "Access")
       => /\ ret = RetErr(DiagError(NamePos(level - 1),
                                     describe_type(prefix) \o " cannot be accessed with .all"))
          /\ pc = "return"

\* vptr.all
C12_Witness ==
  /\ pc = "return"
  /\ level = 1
  /\ name.leaf.des = "vptr"
  /\ name.sfx[1].kind = "All"
  /\ prefix = RObjectName(BaseObject("vptr"), NoType)
  /\ ret = RetSome(RObjectName(BaseObject("vptr"), "integer_vector"))

SelectedApplied == ValuePrefix /\ name.sfx[level].kind = "Selected"

\* The selector names the element fld of the record rec_t
SelectsElement ==
  base_type(PrefixType(prefix)) = "rec_t" /\ name.sfx[level].des = "fld"

\* The selector names the method meth of the protected type prot_t
SelectsMethod ==
  base_type(PrefixType(prefix)) = "prot_t" /\ name.sfx[level].des = "meth"

\* C13: a Selected suffix on a typed prefix yields, for a record element, the
\* same kind of name with the type of the element, and the element is written
\* to the reference of the suffix; for a method of a protected type it yields
\* Overloaded(the designator at the position of the suffix, the methods), for
\* ObjectName and Expression prefixes; any other selection is an error
C13_Selected ==
  /\ (SelectedApplied /\ SelectsElement)
       => /\ ret = RetSome(SameKind(Arena["fld"].typ))
          /\ name.sfx[level].ref = "fld"
  /\ (SelectedApplied /\ SelectsMethod)
       => ret = RetSome(ROverloaded("meth", SelPos(level), OverloadedSets["meth"]))
  /\ (SelectedApplied /\ ~SelectsElement /\ ~SelectsMethod)
       => /\ ret.k = "Err"
          /\ ret.diag.pos = SelPos(level)
          /\ pc = "return"

\* prot_t(0).meth: the method selected out of an Expression of type prot_t
C13_Witness ==
  /\ level = 2
  /\ name.leaf.des = "prot_t"
  /\ name.sfx[1].kind = "CallOrIndexed"
  /\ name.sfx[2].kind = "Selected"
  /\ prefix = RExpression("prot_t")
  /\ ret = RetSome(ROverloaded("meth", SelPos(2), {"meth"}))

(***************************************************************************)
(* The two classifiers as functions of the entity: every entity of the     *)
(* arena is classified as looked up from the scope and as selected from a  *)
(* design unit.  name.leaf.ref is the entity, ret the Result of            *)
(* from_scope_not_overloaded and result that of from_design_not_overloaded *)
(***************************************************************************)
Unclassified == [ok |-> FALSE, rn |-> RN0, msg |-> "-"]

ClassifyInit ==
  /\ name \in {[leaf |-> [kind |-> "Designator", des |-> designator(e), ref |-> e,
                          class |-> "-", subtype |-> NoType],
                sfx |-> << >>] : e \in EntIds}
  /\ open = FALSE
  /\ pc = "classify"
  /\ level = 0
  /\ resolved = RN0
  /\ prefix = RN0
  /\ ret = Unclassified
  /\ diagnostics = << >>
  /\ entry = [fn |-> "-", ttyp |-> NoType]
  /\ frame = [ttyp |-> NoType, has_suffix |-> FALSE]
  /\ dis = NoDis
  /\ typed = NoTyped
  /\ passes = 0
  /\ result = Unclassified

Classify_from_scope ==
  /\ pc = "classify"
  /\ ret = Unclassified
  /\ ret' = from_scope_not_overloaded(name.leaf.ref)
  /\ passes' = passes + 1
  /\ UNCHANGED <<name, open, pc, level, resolved, prefix, diagnostics, entry, frame, dis,
                 typed, result>>

Classify_from_design ==
  /\ pc = "classify"
  /\ result = Unclassified
  /\ result' = from_design_not_overloaded(name.leaf.ref)
  /\ passes' = passes + 1
  /\ UNCHANGED <<name, open, pc, level, resolved, prefix, diagnostics, entry, frame, dis,
                 typed, ret>>

ClassifyNext == Classify_from_scope \/ Classify_from_design

ClassifySpec == ClassifyInit /\ [][ClassifyNext]_vars

\* The kind of the classified entity
ClassifiedKind == Arena[name.leaf.ref].kind

BothClassified == pc = "classify" /\ ret # Unclassified /\ result # Unclassified

FinalInBoth == {"File", "InterfaceFile", "Component", "PhysicalLiteral"}

C15_Rejections ==
  /\ (pc = "classify" /\ ret # Unclassified)
       => /\ ClassifiedKind = "Design" => ret = ClassOk(RDesign(name.leaf.ref))
          /\ ClassifiedKind = "Library" => ret = ClassOk(RLibrary(name.leaf.des))
          /\ ClassifiedKind \in {"Attribute", "ElementDeclaration", "Overloaded"}
               => ~ret.ok /\ ret.rn = RN0
  /\ (pc = "classify" /\ result # Unclassified)
       => (ClassifiedKind \in {"Design", "Library", "Attribute", "ElementDeclaration",
                               "Overloaded"}
             => ~result.ok /\ result.rn = RN0)

\* The library lib: Library(lib) from the scope, an error from a design unit
C15_Witness ==
  /\ BothClassified
  /\ name.leaf.ref = "lib"
  /\ ret = ClassOk(RLibrary("lib"))
  /\ result = ClassErr("library lib cannot be selected from design unit")

\* The suffix the last frame applied
AppliedSuffix == name.sfx[level]

\* The frame applied a Selected, All, Slice or CallOrIndexed suffix to a
\* prefix of the kind k
UnitPrefix(k) ==
  /\ SuffixApplied
  /\ prefix.kind = k
  /\ AppliedSuffix.kind # "Attribute"

\* The frame failed with the cannot-be-prefix error at the name
RejectedAsPrefix ==
  /\ ret = RetErr(cannot_be_prefix(NamePos(level), prefix, AppliedSuffix))
  /\ pc = "return"

\* What the design unit of the prefix holds under the selector
Member == design_selected(prefix.ent, AppliedSuffix.des)

\* C16: a prefix that resolved to Library or Design accepts only a Selected
\* suffix: Library.s yields Design(lookup_in_library(l, s)), Design.s the
\* classification of the selected member, or Overloaded for a bundle; All,
\* Slice and CallOrIndexed suffixes yield the cannot-be-prefix error and never
\* a resolved name
C16_UnitsAreSelected ==
  /\ (UnitPrefix("Library") /\ AppliedSuffix.kind = "Selected")
       => IF lookup_in_library(prefix.des, AppliedSuffix.des).ok
          THEN ret = RetSome(RDesign(lookup_in_library(prefix.des, AppliedSuffix.des).ent))
          ELSE ret.k = "Err" /\ pc = "return"
  /\ (UnitPrefix("Design") /\ AppliedSuffix.kind = "Selected")
       => CASE Member.k = "Single" /\ from_design_not_overloaded(Member.ent).ok ->
                 ret = RetSome(from_design_not_overloaded(Member.ent).rn)
            [] Member.k = "Single" ->
                 ret = RetErr(DiagError(SelPos(level),
                                        from_design_not_overloaded(Member.ent).msg))
            [] Member.k = "Overloaded" ->
                 ret = RetSome(ROverloaded(AppliedSuffix.des, SelPos(level), Member.set))
            [] OTHER -> ret.k = "Err" /\ pc = "return"
  /\ ((UnitPrefix("Library") \/ UnitPrefix("Design")) /\ AppliedSuffix.kind # "Selected")
       => RejectedAsPrefix

\* lib.pkg.c0: the design out of the library, the constant out of the design
C16_Witness ==
  /\ level = 2
  /\ name.leaf.des = "lib"
  /\ name.sfx[1].des = "pkg"
  /\ name.sfx[2].kind = "Selected"
  /\ prefix = RDesign("pkg")
  /\ ret = RetSome(RObjectName(BaseObject("c0"), NoType))

\* The suffix has the form of a type conversion: one positional association
\* that is not open
ConversionForm ==
  /\ AppliedSuffix.kind = "CallOrIndexed"
  /\ Len(AppliedSuffix.assocs) = 1
  /\ ~AppliedSuffix.assocs[1].formal
  /\ AppliedSuffix.assocs[1].actual # "Open"

\* C17: Type and Final are terminal: a Type prefix followed by CallOrIndexed
\* with exactly one positional association that is not open yields
\* Expression(Unambiguous(t)), the argument left unanalyzed; a Type prefix
\* with any other Selected, All, Slice or CallOrIndexed suffix, and a Final
\* prefix with any such suffix, yields the cannot-be-prefix error
C17_Terminal ==
  /\ (UnitPrefix("Type") /\ ConversionForm)
       => /\ ret = RetSome(RExpression(prefix.typ))
          /\ AppliedSuffix.analyzed = 0
          /\ AppliedSuffix.assocs[1].ref = NoRef
  /\ (UnitPrefix("Type") /\ ~ConversionForm) => RejectedAsPrefix
  /\ UnitPrefix("Final") => RejectedAsPrefix

\* integer(c0)
C17_Witness ==
  /\ level = 1
  /\ name.leaf.des = "integer"
  /\ name.sfx[1].kind = "CallOrIndexed"
  /\ Len(name.sfx[1].assocs) = 1
  /\ name.sfx[1].assocs[1].des = "c0"
  /\ prefix = RType("integer")
  /\ ret = RetSome(RExpression("integer"))

ValueKinds == {"Type", "ObjectName", "Overloaded", "Expression", "Final"}

\* C18: the driver is monotone over the suffixes: a Library prefix can only
\* become Design, a Design prefix can only become Type, ObjectName,
\* Overloaded or Final, and once the resolved name is a Type, ObjectName,
\* Overloaded, Expression or Final no suffix produces Library or Design
C18_Monotone ==
  (SuffixApplied /\ ret.k = "Some")
    => /\ prefix.kind = "Library" => ret.rn.kind = "Design"
       /\ prefix.kind = "Design"
            => ret.rn.kind \in {"Type", "ObjectName", "Overloaded", "Final"}
       /\ prefix.kind \in ValueKinds => ret.rn.kind \in ValueKinds

\* lib.pkg.integer: Library, then Design, then Type
C18_Witness ==
  /\ level = 2
  /\ name.leaf.des = "lib"
  /\ name.sfx[1].des = "pkg"
  /\ name.sfx[2].des = "integer"
  /\ prefix.kind = "Design"
  /\ ret = RetSome(RType("integer"))

\* The names the state holds: the prefix of the last frame, what the driver
\* resolved so far, what the last frame and the entry point returned
HeldNames == {prefix, resolved, ret.rn, result.rn}

\* C19: every ObjectName the resolver constructs, from the scope, from a
\* design unit, from an external name or after any suffixes, has a type mark
\* or the base Object(h): ObjectName::type_mark() never reaches its
\* unreachable branch
C19_TypeMarkOrObject ==
  \A rn \in HeldNames :
    rn.kind = "ObjectName" => (rn.typ # NoType \/ rn.base.bk = "Object")

\* pkg.dc, a deferred constant selected from a design unit, with its type mark
C19_Witness ==
  /\ level = 1
  /\ name.leaf.des = "pkg"
  /\ name.sfx[1].des = "dc"
  /\ pc = "return"
  /\ ret = RetSome(RObjectName(BaseDeferredConstant("dc"), "rec_t"))

\* C20: a typed suffix that yields a type, applied to an ObjectName, produces
\* an ObjectName with the base of the prefix, class and backing entity
\* unchanged, and with the type mark present and equal to the type the suffix
\* yielded, after every number of suffixes
C20_WithSuffix ==
  (SuffixApplied /\ prefix.kind = "ObjectName" /\ typed.k = "Type")
    => /\ typed.typ # NoType
       /\ ret = RetSome(RObjectName(prefix.base, typed.typ))
       /\ ObjectBase_class(ret.rn.base) = ObjectBase_class(prefix.base)

\* vptr.all(0): the type mark integer_vector of vptr.all becomes integer, the
\* base stays the variable vptr
C20_Witness ==
  /\ level = 2
  /\ name.leaf.des = "vptr"
  /\ name.sfx[1].kind = "All"
  /\ name.sfx[2].kind = "CallOrIndexed"
  /\ prefix = RObjectName(BaseObject("vptr"), "integer_vector")
  /\ typed = [k |-> "Type", typ |-> "integer"]
  /\ ret = RetSome(RObjectName(BaseObject("vptr"), "integer"))

\* The designator of the leaf and the selectors of the suffixes applied so far
\* all have their reference set
ReferencesSet ==
  /\ name.leaf.kind = "Designator" => name.leaf.ref # NoRef
  /\ \A i \in 1..level : name.sfx[i].kind = "Selected" => name.sfx[i].ref # NoRef

\* A frame of the driver returned a resolved name
FrameReturnedSome == pc \in {"suffix", "return"} /\ ret.k = "Some"

\* C21: after every resolution by the driver that returns Some, every
\* designator node and every Selected suffix node along the prefix chain has
\* its reference set
C21_ReferencesPopulated == FrameReturnedSome => ReferencesSet

\* A suffix other than a call collapsed the overloaded leaf to its only
\* parameterless function and the frame returned a name
C21_CollapsedUnset ==
  /\ FrameReturnedSome
  /\ level = 1
  /\ prefix.kind = "Overloaded"
  /\ name.sfx[1].kind # "CallOrIndexed"
  /\ dis.fn = "disambiguate_no_actuals"
  /\ dis.k = "Unambiguous"
  /\ name.leaf.ref = NoRef

\* C22: the resolver never aborts: over every sequence of entry point calls
\* on the same tree no frame of the driver and no adapter unwraps a missing
\* return type or reaches the unreachable arm of ObjectName::type_mark
C22_NeverAborts == ret.k # "Panic" /\ result.k # "Panic"

\* The fast path aborted in the driver on the second call on the tree
C22_FastPathAborts ==
  /\ ret.k = "Panic"
  /\ passes = 2
  /\ prefix.kind = "Overloaded"
  /\ name.sfx[level].kind = "CallOrIndexed"
  /\ FastPathTaken(get_suffix_reference(name, level - 1))

\* The last frame applied an attribute suffix
AttributeApplied == SuffixApplied /\ AppliedSuffix.kind = "Attribute"

\* The overloaded prefix of the last frame collapsed to the kind k
CollapsedTo(k) ==
  /\ prefix.kind = "Overloaded"
  /\ dis.fn = "disambiguate_no_actuals"
  /\ dis.k = k

CollapsedToProcedure == CollapsedTo("Unambiguous") /\ return_type(dis.ent) = NoType

\* Every call on the tree analyzed the signature and the expression of the
\* attribute, when it has any
AttributeAnalyzed ==
  AppliedSuffix.analyzed = IF AppliedSuffix.sig \/ AppliedSuffix.expr THEN passes ELSE 0

\* The frame returned None, not a name and not an error
ReturnedNone == ret = RetNone /\ pc = "return"

\* The name resolved so far has an attribute suffix
HasAttribute == \E i \in 1..level : name.sfx[i].kind = "Attribute"

\* C23 as stated: but for a prefix that collapses to a procedure, every frame
\* of an attribute suffix analyzes the signature and the expression of the
\* attribute and returns None
C23_AttributeAnalyzed ==
  /\ (AttributeApplied /\ ~CollapsedToProcedure) => (AttributeAnalyzed /\ ReturnedNone)
  /\ (pc \in {"suffix", "return", "done"} /\ HasAttribute)
       => (ret.k = "None" /\ result.k \in {"-", "None", "Unit"})

\* C23: for every name whose outermost suffix is an Attribute and whose prefix
\* resolves to something other than an overloaded name that collapses to a
\* procedure or to several parameterless candidates, the driver analyzes the
\* signature and the expression of the attribute and returns None; when the
\* prefix collapses to a procedure or is ambiguous it returns None without
\* analyzing them; it never returns a name or the cannot-be-prefix error, and
\* a name with an attribute in its prefix chain resolves to None
C23_AttributeIsNone ==
  /\ (AttributeApplied /\ ~CollapsedToProcedure /\ ~CollapsedTo("Ambiguous"))
       => (AttributeAnalyzed /\ ReturnedNone)
  /\ (AttributeApplied /\ (CollapsedToProcedure \/ CollapsedTo("Ambiguous")))
       => (AppliedSuffix.analyzed = 0 /\ ReturnedNone)
  /\ (pc \in {"suffix", "return", "done"} /\ HasAttribute)
       => (ret.k = "None" /\ result.k \in {"-", "None", "Unit"})

\* c0'attr(expr) resolved a second time: analyzed twice, None both times
C23_Witness ==
  /\ AttributeApplied
  /\ prefix.kind = "ObjectName"
  /\ AppliedSuffix.expr
  /\ passes = 2
  /\ AppliedSuffix.analyzed = 2
  /\ ReturnedNone

\* alpha'attr(expr): the ambiguous prefix returns None before the analysis
C23_AmbiguousWitness ==
  /\ AttributeApplied
  /\ CollapsedTo("Ambiguous")
  /\ AppliedSuffix.expr
  /\ AppliedSuffix.analyzed = 0
  /\ ReturnedNone

(***************************************************************************)
(* The two name-to-type adapters as functions of a ResolvedName            *)
(***************************************************************************)
\* The values of ResolvedName: what the two classifiers make of the entities,
\* the overloaded names, object names after a suffix, and expressions
ResolvedNames ==
  {RLibrary("lib")}
    \cup {from_scope_not_overloaded(e).rn : e \in {x \in EntIds : from_scope_not_overloaded(x).ok}}
    \cup {from_design_not_overloaded(e).rn :
            e \in {x \in EntIds : from_design_not_overloaded(x).ok}}
    \cup {ROverloaded(d, NamePos(0), OverloadedSets[d]) : d \in DOMAIN OverloadedSets}
    \cup {RObjectName(BaseObject("v_arr"), "integer"),
          RObjectName(BaseExternalName("signal"), "integer_vector")}
    \cup {RExpression(t) : t \in TypeIds}
    \cup {RAmbiguousExpression({"integer", "character"})}

\* name_to_type is applied to a resolved name at the position of the name
Call_name_to_type ==
  /\ pc = "start"
  /\ \E rn \in ResolvedNames :
       /\ resolved' = rn
       /\ result' = name_to_type(NamePos(0), rn)
  /\ pc' = "name_to_type"
  /\ UNCHANGED <<name, open, level, prefix, ret, diagnostics, entry, frame, dis, typed,
                 passes>>

\* name_to_unambiguous_type is applied to the same resolved name with a target
\* type; suffix_ref is the reference of the leaf when the leaf has one
Call_name_to_unambiguous_type ==
  /\ pc = "name_to_type"
  /\ \E t \in TargetTypes :
       /\ entry' = [fn |-> "name_to_unambiguous_type", ttyp |-> t]
       /\ ret' = name_to_unambiguous_type(NamePos(0), resolved, t)
       /\ name' = IF name_to_unambiguous_type(NamePos(0), resolved, t).ref # NoRef
                  THEN set_unique_reference(name, 0,
                         name_to_unambiguous_type(NamePos(0), resolved, t).ref)
                  ELSE name
  /\ pc' = "name_to_unambiguous_type"
  /\ UNCHANGED <<open, level, resolved, prefix, diagnostics, frame, dis, typed, passes,
                 result>>

AdapterSpec == Init /\ [][Call_name_to_type \/ Call_name_to_unambiguous_type]_vars

\* name_to_type returned for the resolved name
TypeAdapted == pc \in {"name_to_type", "name_to_unambiguous_type"}

\* Both adapters returned for the resolved name
BothAdapted == pc = "name_to_unambiguous_type"

\* The error both adapters give a name that is no expression
NotExpressionMessage == describe_type(resolved) \o " cannot be used in an expression"

\* The kinds of Final whose type the adapters yield
TypedFinal == {"File", "InterfaceFile", "PhysicalLiteral"}

\* C24: name_to_type rejects Library, Design and Type with the error
\* '<description> cannot be used in an expression' at the name; for Final it
\* yields the type for File, InterfaceFile and PhysicalLiteral only, None
\* without a diagnostic for LoopParameter and the same error for every other
\* Final; ObjectName yields Unambiguous(type_mark); Expression passes through
C24_NameToType ==
  TypeAdapted =>
    CASE resolved.kind \in {"Library", "Design", "Type"} ->
           /\ result.k = "Err"
           /\ result.diag = DiagError(NamePos(0), NotExpressionMessage)
      [] resolved.kind = "Final" /\ Arena[resolved.ent].kind \in TypedFinal ->
           /\ result.k = "Some"
           /\ result.dt = Unambiguous(Arena[resolved.ent].typ)
      [] resolved.kind = "Final" /\ Arena[resolved.ent].kind = "LoopParameter" ->
           /\ result.k = "None"
           /\ result.diag = NoDiag
      [] resolved.kind = "Final" ->
           /\ result.k = "Err"
           /\ result.diag = DiagError(NamePos(0), NotExpressionMessage)
      [] resolved.kind = "ObjectName" ->
           /\ result.k = "Some"
           /\ result.dt = Unambiguous(ObjectName_type_mark(resolved))
      [] resolved.kind = "Expression" ->
           /\ result.k = "Some"
           /\ result.dt = IF resolved.amb THEN Ambiguous(resolved.set)
                          ELSE Unambiguous(resolved.typ)
      [] OTHER -> TRUE

\* The file myfile is an expression of its file type, as in the test
\* file_can_be_expression
C24_Witness ==
  /\ TypeAdapted
  /\ resolved = RFinal("myfile")
  /\ result.k = "Some"
  /\ result.dt = Unambiguous("file_t")

\* The label lbl is rejected
C24_LabelWitness ==
  /\ TypeAdapted
  /\ resolved = RFinal("lbl")
  /\ result.k = "Err"
  /\ result.diag.msg = "label 'lbl' cannot be used in an expression"

C25_AmbiguousWitness ==
  /\ BothAdapted
  /\ resolved = RAmbiguousExpression({"integer", "character"})
  /\ ret.k = "None"
  /\ result.dt = Ambiguous({"integer", "character"})

\* The overloaded name disambiguated with no actuals and the target type
WithTargetType == disambiguate_no_actuals(entry.ttyp, resolved.set)

\* name_to_unambiguous_type returned for an overloaded name
OverloadedAdapted == BothAdapted /\ resolved.kind = "Overloaded"

\* suffix_ref is as it was before the call: never written
ReferenceUnchanged == name.leaf.ref = NoRef

\* C26: for an Overloaded name name_to_unambiguous_type disambiguates with no
\* actuals and the target type: Unambiguous(ent) writes the id of ent into
\* suffix_ref when one is given and returns the return type of ent; Ambiguous
\* returns the error 'Ambiguous call to <designator>' at the designator and
\* leaves suffix_ref unchanged; no candidate gives None and leaves suffix_ref
\* unchanged
C26_OverloadedWithTargetType ==
  OverloadedAdapted =>
    /\ ret.dis = Dis("disambiguate_no_actuals", entry.ttyp, WithTargetType)
    /\ CASE WithTargetType.k = "Unambiguous" ->
              /\ ret.k = "Some"
              /\ ret.typ = return_type(WithTargetType.ent)
              /\ ret.typ # NoType
              /\ name.leaf.ref = IF name.leaf.kind = "Designator" THEN WithTargetType.ent
                                 ELSE NoRef
         [] WithTargetType.k = "Ambiguous" ->
              /\ ret.k = "Err"
              /\ ret.diag = DiagError(resolved.dpos,
                                      "Ambiguous call to '" \o resolved.des \o "'")
              /\ ReferenceUnchanged
         [] OTHER ->
              /\ ret.k = "None"
              /\ ret.diag = NoDiag
              /\ ReferenceUnchanged

\* alpha with the target type character: the function returning character is
\* written to the reference of the designator
C26_Witness ==
  /\ OverloadedAdapted
  /\ resolved.des = "alpha"
  /\ entry.ttyp = "character"
  /\ name.leaf.kind = "Designator"
  /\ name.leaf.ref = "alpha_c"
  /\ ret.k = "Some"
  /\ ret.typ = "character"

\* alpha with the target type integer: two candidates are left
C26_AmbiguousWitness ==
  /\ OverloadedAdapted
  /\ resolved.des = "alpha"
  /\ entry.ttyp = "integer"
  /\ ret.k = "Err"
  /\ ret.diag.msg = "Ambiguous call to 'alpha'"

\* fun has no parameterless candidate
C26_NoneWitness ==
  /\ OverloadedAdapted
  /\ resolved.des = "fun"
  /\ ret.k = "None"

\* No reference is given: the leaf is an external name
C26_NoReferenceWitness ==
  /\ OverloadedAdapted
  /\ WithTargetType.k = "Unambiguous"
  /\ name.leaf.kind = "External"
  /\ ret.k = "Some"

\* expression_name_with_ttyp returned, or aborted
WithTtypDone == pc = "done" /\ entry.fn = "expression_name_with_ttyp"

\* What name_to_unambiguous_type made of the name the driver returned
Adapted == name_to_unambiguous_type(NamePos(Len(name.sfx)), ret.rn, entry.ttyp)

\* The name resolved to an unambiguous type that cannot be the target type
ResolvedToMismatch ==
  /\ ret.k = "Some"
  /\ Adapted.k = "Some"
  /\ ~can_be_target_type(Adapted.typ, base_type(entry.ttyp))

\* The number of type mismatch diagnostics the call pushed
MismatchesPushed ==
  Cardinality({i \in 1..Len(diagnostics) :
                 diagnostics[i] = type_mismatch(NamePos(Len(name.sfx)), ret.rn, entry.ttyp)})

\* The error the driver or the adapter returned is the last diagnostic pushed
ErrorPushed(diag) == diagnostics # << >> /\ diagnostics[Len(diagnostics)] = diag

\* What expression_name_with_ttyp pushes
WithTtypPushes ==
  /\ MismatchesPushed = IF ResolvedToMismatch THEN 1 ELSE 0
  /\ ret.k = "Err" => ErrorPushed(ret.diag)
  /\ (ret.k = "Some" /\ Adapted.k = "Err") => ErrorPushed(Adapted.diag)

\* C27: expression_name_with_ttyp pushes a type mismatch exactly when the name
\* resolves to an unambiguous type T for which can_be_target_type(T, base of
\* ttyp) is false, and then exactly one; every non-fatal resolution error is
\* pushed, and the call returns Ok(())
C27_TypeMismatch == WithTtypDone => (WithTtypPushes /\ result.k = "Unit")

\* The same for the calls that do not abort
C27_UnlessAborted ==
  (WithTtypDone /\ result.k # "Panic") => (WithTtypPushes /\ result.k = "Unit")

\* c0 is a natural where a character is expected: one mismatch
C27_MismatchPushed ==
  /\ WithTtypDone
  /\ entry.ttyp = "character"
  /\ ret.rn = RObjectName(BaseObject("c0"), NoType)
  /\ diagnostics = <<DiagError(NamePos(0),
                               "constant 'c0' of subtype 'NATURAL' does not match type 'CHARACTER'")>>
  /\ result.k = "Unit"

\* The driver failed for a resolution error: an error was returned, a
\* procedure was selected, the overloaded prefix or the call was ambiguous
DriverFailed ==
  \/ ret.k = "Err"
  \/ ret.k = "None" /\ dis.k = "Unambiguous" /\ return_type(dis.ent) = NoType
  \/ ret.k = "None" /\ dis.k = "Ambiguous"

\* An expression entry point returns what the driver returned
ExpressionReturns ==
  /\ pc = "return"
  /\ pc' = "done"
  /\ entry.fn \in {"expression_name_types", "expression_name_with_ttyp"}

\* C28: whenever resolution fails because of a resolution error (unknown
\* designator, invalid prefix, procedure in expression, ambiguous overloaded
\* prefix or ambiguous call), expression_name_types and
\* expression_name_with_ttyp return None and unit and at least one diagnostic
\* for the failure has been pushed
C28_FailurePushes ==
  [][(ExpressionReturns /\ DriverFailed)
       => (result'.k \in {"None", "Unit"} /\ diagnostics' # << >>)]_vars

\* The same without the ambiguous prefix and the ambiguous call
C28_ErrorsPushed ==
  [][(ExpressionReturns /\ DriverFailed /\ dis.k # "Ambiguous")
       => (result'.k \in {"None", "Unit"} /\ diagnostics' # << >>)]_vars

\* alpha.all: the collapse is ambiguous, None is returned, nothing is pushed
C28_SilentFailure ==
  /\ pc = "done"
  /\ entry.fn = "expression_name_types"
  /\ name.leaf.des = "alpha"
  /\ Len(name.sfx) = 1
  /\ name.sfx[1].kind = "All"
  /\ result.k = "None"
  /\ diagnostics = << >>

(***************************************************************************)
(* The fallback resolve_name and lookup_selected                           *)
(***************************************************************************)
\* The entities selected by the designator d from the entity prefix, or the
\* error; i is the position of the selector in the name
lookup_selected(i, prefix_ent, d) ==
  CASE Arena[prefix_ent].kind = "Library" ->
         IF lookup_in_library(prefix_ent, d).ok
         THEN [named |-> [k |-> "Single", ent |-> lookup_in_library(prefix_ent, d).ent, set |-> {}],
               diag |-> NoDiag]
         ELSE [named |-> [k |-> "Err", ent |-> NoRef, set |-> {}],
               diag |-> DiagError(SelPos(i), "No primary unit '" \o d \o "' within library '"
                                               \o prefix_ent \o "'")]
    [] Arena[prefix_ent].kind \in {"Object", "ObjectAlias", "ExternalAlias", "ElementDeclaration"} ->
         CASE type_selected(Arena[prefix_ent].typ, d).k = "RecordElement" ->
                [named |-> [k |-> "Single", ent |-> type_selected(Arena[prefix_ent].typ, d).elem,
                            set |-> {}],
                 diag |-> NoDiag]
           [] type_selected(Arena[prefix_ent].typ, d).k = "ProtectedMethod" ->
                [named |-> [k |-> "Overloaded", ent |-> NoRef,
                            set |-> type_selected(Arena[prefix_ent].typ, d).set],
                 diag |-> NoDiag]
           [] OTHER ->
                [named |-> [k |-> "Err", ent |-> NoRef, set |-> {}],
                 diag |-> DiagError(SelPos(i), "No declaration of '" \o d \o "' within "
                                                 \o Arena[Arena[prefix_ent].typ].desc)]
    [] Arena[prefix_ent].kind = "Design" ->
         [named |-> design_selected(prefix_ent, d),
          diag |-> IF design_selected(prefix_ent, d).k # "Err" THEN NoDiag
                   ELSE DiagError(SelPos(i), "No declaration of '" \o d \o "' within "
                                               \o Arena[prefix_ent].desc)]
    [] OTHER ->
         [named |-> [k |-> "Err", ent |-> NoRef, set |-> {}],
          diag |-> DiagError(NamePos(i - 1), Arena[prefix_ent].desc
                                               \o " may not be the prefix of a selected name")]

\* The fallback that drops the error of lookup_selected
resolve_name_Silent(nm, i, prefix_ret) ==
  CASE i = 0 /\ nm.leaf.kind = "Designator" ->
         IF scope_lookup(nm.leaf.des).k # "Err"
         THEN FrameOut([k |-> "Some", named |-> scope_lookup(nm.leaf.des)], << >>,
                       [nm EXCEPT !.leaf.ref = as_unique(scope_lookup(nm.leaf.des))],
                       NoDis, NoTyped)
         ELSE FrameOut([k |-> "None", named |-> scope_lookup(nm.leaf.des)],
                       <<not_found(NamePos(0), nm.leaf.des)>>, nm, NoDis, NoTyped)
    [] i = 0 ->
         FrameOut([k |-> "None", named |-> scope_lookup("-")], << >>, nm, NoDis, NoTyped)
    [] nm.sfx[i].kind = "Selected" /\ prefix_ret.k = "Some" /\ prefix_ret.named.k = "Single" ->
         IF lookup_selected(i, prefix_ret.named.ent, nm.sfx[i].des).named.k # "Err"
         THEN FrameOut([k |-> "Some",
                        named |-> lookup_selected(i, prefix_ret.named.ent, nm.sfx[i].des).named],
                       << >>,
                       [nm EXCEPT !.sfx[i].ref =
                          as_unique(lookup_selected(i, prefix_ret.named.ent, nm.sfx[i].des).named)],
                       NoDis, NoTyped)
         ELSE FrameOut([k |-> "None", named |-> scope_lookup("-")],
                       << >>, nm,
                       NoDis, NoTyped)
    [] nm.sfx[i].kind \in {"Selected", "All"} ->
         FrameOut([k |-> "None", named |-> scope_lookup("-")], << >>, nm, NoDis, NoTyped)
    [] nm.sfx[i].kind = "Slice" ->
         FrameOut([k |-> "None", named |-> scope_lookup("-")], << >>,
                  [nm EXCEPT !.sfx[i] = analyze_discrete_range(@)], NoDis, NoTyped)
    [] nm.sfx[i].kind = "Attribute" ->
         FrameOut([k |-> "None", named |-> scope_lookup("-")], << >>,
                  [nm EXCEPT !.sfx[i] = analyze_attribute(@)], NoDis, NoTyped)
    [] OTHER ->
         FrameOut([k |-> "None", named |-> scope_lookup("-")], << >>,
                  [nm EXCEPT !.sfx[i] = analyze_assoc_elems(@)], NoDis, NoTyped)

\* One level of resolve_name: the leaf of the tree nm when i = 0, else its
\* suffix i applied to what resolve_name returned for the prefix.  ret is the
\* Option<NamedEntities> returned, pushed what went to the sink
resolve_name(nm, i, prefix_ret) ==
  CASE i = 0 /\ nm.leaf.kind = "Designator" ->
         IF scope_lookup(nm.leaf.des).k # "Err"
         THEN FrameOut([k |-> "Some", named |-> scope_lookup(nm.leaf.des)], << >>,
                       [nm EXCEPT !.leaf.ref = as_unique(scope_lookup(nm.leaf.des))],
                       NoDis, NoTyped)
         ELSE FrameOut([k |-> "None", named |-> scope_lookup(nm.leaf.des)],
                       <<not_found(NamePos(0), nm.leaf.des)>>, nm, NoDis, NoTyped)
    [] i = 0 ->
         FrameOut([k |-> "None", named |-> scope_lookup("-")], << >>, nm, NoDis, NoTyped)
    [] nm.sfx[i].kind = "Selected" /\ prefix_ret.k = "Some" /\ prefix_ret.named.k = "Single" ->
         IF lookup_selected(i, prefix_ret.named.ent, nm.sfx[i].des).named.k # "Err"
         THEN FrameOut([k |-> "Some",
                        named |-> lookup_selected(i, prefix_ret.named.ent, nm.sfx[i].des).named],
                       << >>,
                       [nm EXCEPT !.sfx[i].ref =
                          as_unique(lookup_selected(i, prefix_ret.named.ent, nm.sfx[i].des).named)],
                       NoDis, NoTyped)
         ELSE FrameOut([k |-> "None", named |-> scope_lookup("-")],
                       <<lookup_selected(i, prefix_ret.named.ent, nm.sfx[i].des).diag>>, nm,
                       NoDis, NoTyped)
    [] nm.sfx[i].kind \in {"Selected", "All"} ->
         FrameOut([k |-> "None", named |-> scope_lookup("-")], << >>, nm, NoDis, NoTyped)
    [] nm.sfx[i].kind = "Slice" ->
         FrameOut([k |-> "None", named |-> scope_lookup("-")], << >>,
                  [nm EXCEPT !.sfx[i] = analyze_discrete_range(@)], NoDis, NoTyped)
    [] nm.sfx[i].kind = "Attribute" ->
         FrameOut([k |-> "None", named |-> scope_lookup("-")], << >>,
                  [nm EXCEPT !.sfx[i] = analyze_attribute(@)], NoDis, NoTyped)
    [] OTHER ->
         FrameOut([k |-> "None", named |-> scope_lookup("-")], << >>,
                  [nm EXCEPT !.sfx[i] = analyze_assoc_elems(@)], NoDis, NoTyped)

\* resolve_name reaches the leaf of the name
ResolveNameLeaf ==
  /\ pc = "start"
  /\ name' = resolve_name(name, 0, ret).nm
  /\ ret' = resolve_name(name, 0, ret).ret
  /\ diagnostics' = resolve_name(name, 0, ret).pushed
  /\ pc' = "resolve_name"
  /\ entry' = [fn |-> "resolve_name", ttyp |-> NoType]
  /\ UNCHANGED <<open, level, resolved, prefix, frame, dis, typed, passes, result>>

\* resolve_name returns from the prefix to the frame of the next suffix, which
\* is revealed; a call has at most one association, which is all that the
\* analysis of the associations needs
ResolveNameSuffix ==
  /\ pc = "resolve_name"
  /\ open
  /\ \E s \in {x \in SuffixForms : Len(x.assocs) <= 1}, more \in BOOLEAN :
       /\ more => level + 1 < MaxSuffixes
       /\ open' = more
       /\ name' = resolve_name([name EXCEPT !.sfx = Append(@, s)], level + 1, ret).nm
       /\ ret' = resolve_name([name EXCEPT !.sfx = Append(@, s)], level + 1, ret).ret
       /\ diagnostics' =
            diagnostics \o resolve_name([name EXCEPT !.sfx = Append(@, s)], level + 1, ret).pushed
  /\ prefix' = ret
  /\ level' = level + 1
  /\ UNCHANGED <<pc, resolved, entry, frame, dis, typed, passes, result>>

ResolveNameSpec == Init /\ [][ResolveNameLeaf \/ ResolveNameSuffix]_vars

\* resolve_name returned for the leaf and the suffixes revealed so far
NameLookedUp == pc = "resolve_name"

\* The suffix of the last level of resolve_name
LastSuffix == name.sfx[level]

\* resolve_name looked the selector up in the single entity of the prefix
SelectedFromSingle ==
  /\ NameLookedUp
  /\ level >= 1
  /\ LastSuffix.kind = "Selected"
  /\ prefix.k = "Some"
  /\ prefix.named.k = "Single"

\* The inner parts of the last suffix were analyzed once
InnerAnalyzed ==
  CASE LastSuffix.kind \in {"Slice", "CallOrIndexed"} ->
         /\ LastSuffix.analyzed = 1
         /\ \A j \in 1..Len(LastSuffix.assocs) :
              LastSuffix.assocs[j] = AnalyzeAssoc(LastSuffix.assocs[j])
    [] LastSuffix.kind = "Attribute" ->
         LastSuffix.analyzed = IF LastSuffix.sig \/ LastSuffix.expr THEN 1 ELSE 0
    [] OTHER -> TRUE

\* The designator of the leaf was looked up
LeafLookedUp ==
  name.leaf.kind = "Designator" => name.leaf.ref = as_unique(scope_lookup(name.leaf.des))

\* C29: resolve_name returns Some(entities) only for a bare designator or a
\* chain of Selected suffixes in which every prefix resolved to a single
\* entity; for SelectedAll, Slice, Attribute, CallOrIndexed and External it
\* returns None after analyzing the prefix and the inner parts; a selection
\* from an overloaded prefix returns None and pushes nothing; every lookup
\* error is pushed and None returned
C29_Fallback ==
  /\ (NameLookedUp /\ ret.k = "Some")
       => /\ name.leaf.kind = "Designator"
          /\ \A i \in 1..level : name.sfx[i].kind = "Selected"
          /\ level >= 1 => (prefix.k = "Some" /\ prefix.named.k = "Single")
          /\ ret.named.k \in {"Single", "Overloaded"}
          /\ diagnostics = << >>
  /\ (NameLookedUp /\ level = 0)
       => CASE name.leaf.kind = "External" -> ret.k = "None" /\ diagnostics = << >>
            [] scope_lookup(name.leaf.des).k = "Err" ->
                 /\ ret.k = "None"
                 /\ diagnostics = <<not_found(NamePos(0), name.leaf.des)>>
            [] OTHER -> ret = [k |-> "Some", named |-> scope_lookup(name.leaf.des)]
  /\ (NameLookedUp /\ level >= 1 /\ LastSuffix.kind # "Selected")
       => (ret.k = "None" /\ InnerAnalyzed /\ LeafLookedUp)
  /\ (NameLookedUp /\ level >= 1 /\ LastSuffix.kind = "Selected" /\ prefix.k = "Some"
        /\ prefix.named.k = "Overloaded")
       => (ret.k = "None" /\ diagnostics = << >>)
  /\ SelectedFromSingle
       => IF lookup_selected(level, prefix.named.ent, LastSuffix.des).named.k = "Err"
          THEN /\ ret.k = "None"
               /\ diagnostics = <<lookup_selected(level, prefix.named.ent, LastSuffix.des).diag>>
          ELSE /\ ret.k = "Some"
               /\ ret.named = lookup_selected(level, prefix.named.ent, LastSuffix.des).named
               /\ LastSuffix.ref = as_unique(ret.named)

\* lib.pkg.c0: every prefix is a single entity and the constant is returned
C29_Witness ==
  /\ NameLookedUp
  /\ level = 2
  /\ name.leaf.ref = "lib"
  /\ name.sfx[1].ref = "pkg"
  /\ name.sfx[2].ref = "c0"
  /\ ret = [k |-> "Some", named |-> [k |-> "Single", ent |-> "c0", set |-> {}]]

\* fun.fld: a selection from an overloaded prefix
C29_OverloadedPrefix ==
  /\ NameLookedUp
  /\ level = 1
  /\ name.leaf.des = "fun"
  /\ LastSuffix.kind = "Selected"
  /\ prefix.named.k = "Overloaded"
  /\ ret.k = "None"
  /\ diagnostics = << >>

\* nope(c0): the lookup error of the prefix is pushed, the actual is analyzed
C29_CallWitness ==
  /\ NameLookedUp
  /\ level = 1
  /\ name.leaf.des = "nope"
  /\ LastSuffix.kind = "CallOrIndexed"
  /\ Len(LastSuffix.assocs) = 1
  /\ LastSuffix.assocs[1].ref = "c0"
  /\ ret.k = "None"
  /\ diagnostics = <<not_found(NamePos(0), "nope")>>

(***************************************************************************)
(* analyze_indexed_name                                                    *)
(***************************************************************************)
\* The indexed name that fails on a dimension mismatch, as IndexedAs does
analyze_indexed_name_MismatchFails(i, type_mark, suffix) ==
  IF ~array_type(type_mark).some
  THEN [k |-> "Err", typ |-> NoType,
        diag |-> DiagError(SelPos(i), Arena[type_mark].desc \o " cannot be indexed"),
        pushed |-> << >>, suffix |-> suffix]
  ELSE IF Len(suffix.assocs) # array_type(type_mark).rank
       THEN [k |-> "Err", typ |-> NoType, diag |-> dimension_mismatch(NamePos(i)),
             pushed |-> << >>, suffix |-> suffix]
       ELSE [k |-> "Ok", typ |-> array_type(type_mark).elem, diag |-> NoDiag,
             pushed |-> << >>, suffix |-> analyze_assoc_elems(suffix)]

\* The indexes are the associations of the suffix, all of them expressions.
\* k is Ok with the element type typ, or Err with the error diag; pushed goes
\* to the sink; suffix holds the indexes after the call
analyze_indexed_name(i, type_mark, suffix) ==
  IF Arena[IF Arena[base_type(type_mark)].tk = "Access"
           THEN base_type(Arena[base_type(type_mark)].of)
           ELSE base_type(type_mark)].tk = "Array"
  THEN [k |-> "Ok",
        typ |-> Arena[IF Arena[base_type(type_mark)].tk = "Access"
                      THEN base_type(Arena[base_type(type_mark)].of)
                      ELSE base_type(type_mark)].elem,
        diag |-> NoDiag,
        pushed |-> IF Len(suffix.assocs)
                        # Arena[IF Arena[base_type(type_mark)].tk = "Access"
                                THEN base_type(Arena[base_type(type_mark)].of)
                                ELSE base_type(type_mark)].rank
                   THEN <<dimension_mismatch(NamePos(i))>> ELSE << >>,
        suffix |-> [suffix EXCEPT
                      !.assocs = [j \in 1..Len(suffix.assocs) |-> AnalyzeAssoc(suffix.assocs[j])],
                      !.analyzed = @ + 1]]
  ELSE [k |-> "Err", typ |-> NoType,
        diag |-> DiagError(SelPos(i), Arena[type_mark].desc \o " cannot be indexed"),
        pushed |-> << >>, suffix |-> suffix]

\* analyze_indexed_name is called for a prefix of a known type and indexes
Call_analyze_indexed_name ==
  /\ pc = "start"
  /\ \E t \in TypeIds, s \in {x \in SuffixForms : x.kind = "CallOrIndexed"
                                                  /\ could_be_indexed_name(x.assocs)} :
       /\ entry' = [fn |-> "analyze_indexed_name", ttyp |-> t]
       /\ typed' = s
       /\ ret' = analyze_indexed_name(1, t, s)
       /\ name' = [name EXCEPT !.sfx = <<analyze_indexed_name(1, t, s).suffix>>]
       /\ diagnostics' = analyze_indexed_name(1, t, s).pushed
  /\ pc' = "analyze_indexed_name"
  /\ level' = 1
  /\ UNCHANGED <<open, resolved, prefix, frame, dis, passes, result>>

IndexedNameSpec == Init /\ [][Call_analyze_indexed_name]_vars

\* analyze_indexed_name returned for the type entry.ttyp and the indexes typed
IndexedNameAnalyzed == pc = "analyze_indexed_name"

\* The type with its subtypes stripped
Stripped(t) == IF Arena[t].tk = "Subtype" THEN Arena[t].of ELSE t

\* The type after stripping subtypes and at most one level of access
IndexedType ==
  IF Arena[Stripped(entry.ttyp)].tk = "Access"
  THEN Stripped(Arena[Stripped(entry.ttyp)].of)
  ELSE Stripped(entry.ttyp)

\* The indexes as the call left them
Indexes == name.sfx[1].assocs

\* Every index was analyzed: the names among them have their reference
EveryIndexAnalyzed ==
  /\ Len(Indexes) = Len(typed.assocs)
  /\ name.sfx[1].analyzed = 1
  /\ \A j \in 1..Len(Indexes) :
       (Indexes[j].actual = "Name" /\ Indexes[j].des \in ScopeSingles)
         => Indexes[j].ref = Indexes[j].des

\* C30: given a type that after stripping subtypes and at most one level of
\* access is an array, analyze_indexed_name returns the element type even
\* when the number of indexes differs from the dimension: then it pushes
\* exactly one dimension mismatch, and it analyzes every index; for any other
\* type it returns the error '<type> cannot be indexed' at the suffix and
\* analyzes no index
C30_IndexedName ==
  IndexedNameAnalyzed =>
    IF Arena[IndexedType].tk = "Array"
    THEN /\ ret.k = "Ok"
         /\ ret.typ = Arena[IndexedType].elem
         /\ diagnostics = IF Len(Indexes) # Arena[IndexedType].rank
                          THEN <<DiagError(NamePos(1),
                                           "Number of indexes does not match array dimension")>>
                          ELSE << >>
         /\ EveryIndexAnalyzed
    ELSE /\ ret.k = "Err"
         /\ ret.diag = DiagError(SelPos(1), Arena[entry.ttyp].desc \o " cannot be indexed")
         /\ diagnostics = << >>
         /\ name.sfx[1] = typed

\* An access to a subtype of integer_vector with two indexes, one a name: the
\* element type is returned, one mismatch is pushed and the name is analyzed
C30_Witness ==
  /\ IndexedNameAnalyzed
  /\ entry.ttyp = "sptr_t"
  /\ Len(Indexes) = 2
  /\ Indexes[2].ref = "c0"
  /\ ret.k = "Ok"
  /\ ret.typ = "integer"
  /\ Len(diagnostics) = 1

\* An access to an access to an array cannot be indexed
C30_TwoLevels ==
  /\ IndexedNameAnalyzed
  /\ entry.ttyp = "pptr_t"
  /\ ret.k = "Err"
  /\ ret.diag.msg = "access type 'pptr_t' cannot be indexed"

\* ---------------------------------------------------------------------------
\* Context clauses (syntax/context.rs)
\* ---------------------------------------------------------------------------

\* The most items in the body of a context declaration
MaxItems == 2

\* The most names that follow the first name of a context reference
MaxNames == 2

\* The items of a declaration in reverse order
Call_parse_context_ItemsReversed ==
  /\ pc = "start"
  /\ LET T(k) == [kind |-> k, id |-> "-"]
         Id(s) == [kind |-> "Identifier", id |-> s]
         Lists(S, n) == UNION {[1..m -> S] : m \in 0..n}
         RECURSIVE Cat(_)
         Cat(ss) == IF ss = << >> THEN << >> ELSE Head(ss) \o Cat(Tail(ss))
         Heads == {<<T("Context")>>, <<T("Library")>>, << >>}
         FirstNames == {<<Id("ident")>>,
                        <<Id("lib"), T("Dot"), Id("foo")>>,
                        <<Id("lib"), T("Dot"), Id("bar"), T("Dot"), T("All")>>,
                        <<Id("lib"), T("Dot")>>,
                        << >>}
         MoreNames == {<<T("Comma"), Id("bar")>>,
                       <<T("Comma"), Id("lib"), T("Dot"), Id("bar")>>,
                       <<T("Comma")>>}
         Closings == {<<T("SemiColon")>>, <<Id("ident")>>, << >>}
         Items == {<<T("Library"), Id("foo"), T("SemiColon")>>,
                   <<T("Library"), Id("foo"), T("Comma"), Id("bar"), T("SemiColon")>>,
                   <<T("Library"), Id("lib"), T("Dot"), Id("foo"), T("SemiColon")>>,
                   <<T("Use"), Id("foo"), T("Dot"), Id("bar"), T("SemiColon")>>,
                   <<T("Use"), Id("foo"), T("Comma"), Id("lib"), T("Dot"), T("All"),
                     T("SemiColon")>>,
                   <<T("Context"), Id("foo"), T("Dot"), Id("ctx"), T("SemiColon")>>,
                   <<T("Context"), Id("foo"), T("Comma"), Id("bar"), T("SemiColon")>>,
                   <<T("Context"), Id("foo"), T("Is")>>,
                   <<T("Entity")>>,
                   <<T("SemiColon")>>}
         Ends == {<<T("End"), T("SemiColon")>>,
                  <<T("End"), T("Context"), T("SemiColon")>>,
                  <<T("End"), Id("ident"), T("SemiColon")>>,
                  <<T("End"), T("Context"), Id("ident"), T("SemiColon")>>,
                  <<T("End"), Id("ident2"), T("SemiColon")>>,
                  <<T("End"), T("Context"), Id("ident2"), T("SemiColon")>>,
                  <<T("End"), T("Context"), T("Context"), T("SemiColon")>>,
                  <<T("End"), Id("ident")>>,
                  << >>}
         References == {h \o f \o Cat(ns) \o c :
                          h \in Heads, f \in FirstNames,
                          ns \in Lists(MoreNames, MaxNames), c \in Closings}
         Declarations == {h \o f \o <<T("Is")>> \o Cat(is) \o e :
                            h \in Heads, f \in FirstNames,
                            is \in Lists(Items, MaxItems), e \in Ends}
     IN  \E ts \in References \cup Declarations :
           LET Ok(v, p) == [k |-> "Ok", v |-> v, p |-> p]
               Err(p, expected) == [k |-> "Err", v |-> [pos |-> p, expected |-> expected], p |-> p]
               kind(p) == IF p <= Len(ts) THEN ts[p].kind ELSE "EOF"
               \* names::parse_name: an identifier and its selected suffixes
               RECURSIVE selected(_, _, _)
               selected(first, p, parts) ==
                 IF kind(p) # "Dot"
                 THEN Ok([parts |-> parts, pos |-> <<first, p - 1>>], p)
                 ELSE IF kind(p + 1) = "Identifier"
                 THEN selected(first, p + 2, Append(parts, ts[p + 1].id))
                 ELSE IF kind(p + 1) = "All"
                 THEN selected(first, p + 2, Append(parts, "all"))
                 ELSE Err(p + 1, {"Identifier", "All"})
               parse_name(p) ==
                 IF kind(p) = "Identifier" THEN selected(p, p + 1, <<ts[p].id>>)
                 ELSE Err(p, {"Identifier"})
               \* a clause is closed by its semicolon and spans to it
               WithPos(item, first, names) ==
                 IF names.k = "Err" THEN names
                 ELSE IF kind(names.p) # "SemiColon" THEN Err(names.p, {"SemiColon"})
                 ELSE Ok([item |-> item, name_list |-> names.v, pos |-> <<first, names.p>>],
                         names.p + 1)
               \* parse_library_clause: library ident {, ident} ;
               RECURSIVE library_names(_, _)
               library_names(p, name_list) ==
                 IF kind(p) # "Identifier" THEN Err(p, {"Identifier"})
                 ELSE IF kind(p + 1) = "Comma"
                 THEN library_names(p + 2, Append(name_list, [id |-> ts[p].id, pos |-> p]))
                 ELSE Ok(Append(name_list, [id |-> ts[p].id, pos |-> p]), p + 1)
               parse_library_clause(p) ==
                 IF kind(p) # "Library" THEN Err(p, {"Library"})
                 ELSE WithPos("Library", p, library_names(p + 1, << >>))
               \* parse_use_clause: use name {, name} ;
               RECURSIVE use_names(_, _)
               use_names(p, name_list) ==
                 IF parse_name(p).k = "Err" THEN parse_name(p)
                 ELSE IF kind(parse_name(p).p) = "Comma"
                 THEN use_names(parse_name(p).p + 1, Append(name_list, parse_name(p).v))
                 ELSE Ok(Append(name_list, parse_name(p).v), parse_name(p).p)
               parse_use_clause(p) ==
                 IF kind(p) # "Use" THEN Err(p, {"Use"})
                 ELSE WithPos("Use", p, use_names(p + 1, << >>))
               \* parse_context_reference: context name {, name} ;
               RECURSIVE reference_names(_, _)
               reference_names(p, name_list) ==
                 IF kind(p) # "Comma" THEN Ok(name_list, p)
                 ELSE IF parse_name(p + 1).k = "Err" THEN parse_name(p + 1)
                 ELSE reference_names(parse_name(p + 1).p, Append(name_list, parse_name(p + 1).v))
               parse_context_reference(p) ==
                 IF kind(p) # "Context" THEN Err(p, {"Context"})
                 ELSE IF parse_name(p + 1).k = "Err" THEN parse_name(p + 1)
                 ELSE WithPos("Context", p,
                              reference_names(parse_name(p + 1).p, <<parse_name(p + 1).v>>))
               \* parse_context, the declaration: the items up to end [context] [ident] ;
               end_ident(p) == IF kind(p) = "Identifier" THEN p ELSE 0
               End(p, items) ==
                 IF kind(IF end_ident(p) # 0 THEN p + 1 ELSE p) # "SemiColon"
                 THEN Err(IF end_ident(p) # 0 THEN p + 1 ELSE p, {"SemiColon"})
                 ELSE Ok([items |-> items, end_ident |-> end_ident(p)],
                         (IF end_ident(p) # 0 THEN p + 1 ELSE p) + 1)
               Item(p) ==
                 CASE kind(p) = "Library" -> parse_library_clause(p)
                   [] kind(p) = "Use" -> parse_use_clause(p)
                   [] kind(p) = "Context" -> parse_context_reference(p)
               RECURSIVE context_items(_, _)
               context_items(p, items) ==
                 IF kind(p) \in {"Library", "Use", "Context"}
                 THEN IF Item(p).k = "Err" THEN Item(p)
                      ELSE context_items(Item(p).p, <<Item(p).v>> \o items)
                 ELSE IF kind(p) = "End"
                 THEN End(IF kind(p + 1) = "Context" THEN p + 2 ELSE p + 1, items)
                 ELSE Err(p, {"Library", "Use", "Context", "End"})
               to_simple_name(nm) ==
                 IF Len(nm.parts) = 1
                 THEN Ok([id |-> nm.parts[1], pos |-> nm.pos[1]], 0)
                 ELSE Err(nm.pos[1], {"simple name"})
               check_end_identifier_mismatch(ident, e) ==
                 IF e # 0 /\ ts[e].id = ident.id THEN [end_ident_pos |-> e, pushed |-> << >>]
                 ELSE IF e # 0
                 THEN [end_ident_pos |-> 0,
                       pushed |-> <<DiagError(e, "End identifier mismatch, expected "
                                                  \o ident.id)>>]
                 ELSE [end_ident_pos |-> 0, pushed |-> << >>]
               Declaration(nm, body) ==
                 IF body.k = "Err" THEN [r |-> body, pushed |-> << >>]
                 ELSE IF to_simple_name(nm).k = "Err"
                 THEN [r |-> to_simple_name(nm), pushed |-> << >>]
                 ELSE [r |-> Ok([variant |-> "Declaration",
                                 ident |-> to_simple_name(nm).v,
                                 items |-> body.v.items,
                                 end_ident_pos |->
                                   check_end_identifier_mismatch(to_simple_name(nm).v,
                                                                 body.v.end_ident).end_ident_pos],
                                body.p),
                       pushed |-> check_end_identifier_mismatch(to_simple_name(nm).v,
                                                                 body.v.end_ident).pushed]
               \* parse_context, the reference: {, name} ;
               RECURSIVE name_list(_, _)
               name_list(p, names) ==
                 IF kind(p) # "Comma" THEN Ok(names, p)
                 ELSE IF parse_name(p + 1).k = "Err" THEN parse_name(p + 1)
                 ELSE name_list(parse_name(p + 1).p, Append(names, parse_name(p + 1).v))
               Reference(context_token, names) ==
                 IF names.k = "Err" THEN [r |-> names, pushed |-> << >>]
                 ELSE IF kind(names.p) # "SemiColon"
                 THEN [r |-> Err(names.p, {"SemiColon"}), pushed |-> << >>]
                 ELSE [r |-> Ok([variant |-> "Reference", name_list |-> names.v,
                                 pos |-> <<context_token, names.p>>], names.p + 1),
                       pushed |-> << >>]
               parse_context(p) ==
                 IF kind(p) # "Context" THEN [r |-> Err(p, {"Context"}), pushed |-> << >>]
                 ELSE IF parse_name(p + 1).k = "Err"
                 THEN [r |-> parse_name(p + 1), pushed |-> << >>]
                 ELSE IF kind(parse_name(p + 1).p) = "Is"
                 THEN Declaration(parse_name(p + 1).v,
                                  context_items(parse_name(p + 1).p + 1, << >>))
                 ELSE Reference(p, name_list(parse_name(p + 1).p, <<parse_name(p + 1).v>>))
           IN  /\ pc' = "parse_context"
               /\ entry' = [fn |-> "parse_context", ttyp |-> NoType, stream |-> ts]
               /\ result' = parse_context(1).r
               /\ diagnostics' = parse_context(1).pushed
               /\ ret' = parse_context_reference(1)
  /\ UNCHANGED <<name, open, level, resolved, prefix, frame, dis, typed, passes>>

\* The position of a mismatching end identifier is kept
Call_parse_context_EndPosKept ==
  /\ pc = "start"
  /\ LET T(k) == [kind |-> k, id |-> "-"]
         Id(s) == [kind |-> "Identifier", id |-> s]
         Lists(S, n) == UNION {[1..m -> S] : m \in 0..n}
         RECURSIVE Cat(_)
         Cat(ss) == IF ss = << >> THEN << >> ELSE Head(ss) \o Cat(Tail(ss))
         Heads == {<<T("Context")>>, <<T("Library")>>, << >>}
         FirstNames == {<<Id("ident")>>,
                        <<Id("lib"), T("Dot"), Id("foo")>>,
                        <<Id("lib"), T("Dot"), Id("bar"), T("Dot"), T("All")>>,
                        <<Id("lib"), T("Dot")>>,
                        << >>}
         MoreNames == {<<T("Comma"), Id("bar")>>,
                       <<T("Comma"), Id("lib"), T("Dot"), Id("bar")>>,
                       <<T("Comma")>>}
         Closings == {<<T("SemiColon")>>, <<Id("ident")>>, << >>}
         Items == {<<T("Library"), Id("foo"), T("SemiColon")>>,
                   <<T("Library"), Id("foo"), T("Comma"), Id("bar"), T("SemiColon")>>,
                   <<T("Library"), Id("lib"), T("Dot"), Id("foo"), T("SemiColon")>>,
                   <<T("Use"), Id("foo"), T("Dot"), Id("bar"), T("SemiColon")>>,
                   <<T("Use"), Id("foo"), T("Comma"), Id("lib"), T("Dot"), T("All"),
                     T("SemiColon")>>,
                   <<T("Context"), Id("foo"), T("Dot"), Id("ctx"), T("SemiColon")>>,
                   <<T("Context"), Id("foo"), T("Comma"), Id("bar"), T("SemiColon")>>,
                   <<T("Context"), Id("foo"), T("Is")>>,
                   <<T("Entity")>>,
                   <<T("SemiColon")>>}
         Ends == {<<T("End"), T("SemiColon")>>,
                  <<T("End"), T("Context"), T("SemiColon")>>,
                  <<T("End"), Id("ident"), T("SemiColon")>>,
                  <<T("End"), T("Context"), Id("ident"), T("SemiColon")>>,
                  <<T("End"), Id("ident2"), T("SemiColon")>>,
                  <<T("End"), T("Context"), Id("ident2"), T("SemiColon")>>,
                  <<T("End"), T("Context"), T("Context"), T("SemiColon")>>,
                  <<T("End"), Id("ident")>>,
                  << >>}
         References == {h \o f \o Cat(ns) \o c :
                          h \in Heads, f \in FirstNames,
                          ns \in Lists(MoreNames, MaxNames), c \in Closings}
         Declarations == {h \o f \o <<T("Is")>> \o Cat(is) \o e :
                            h \in Heads, f \in FirstNames,
                            is \in Lists(Items, MaxItems), e \in Ends}
     IN  \E ts \in References \cup Declarations :
           LET Ok(v, p) == [k |-> "Ok", v |-> v, p |-> p]
               Err(p, expected) == [k |-> "Err", v |-> [pos |-> p, expected |-> expected], p |-> p]
               kind(p) == IF p <= Len(ts) THEN ts[p].kind ELSE "EOF"
               \* names::parse_name: an identifier and its selected suffixes
               RECURSIVE selected(_, _, _)
               selected(first, p, parts) ==
                 IF kind(p) # "Dot"
                 THEN Ok([parts |-> parts, pos |-> <<first, p - 1>>], p)
                 ELSE IF kind(p + 1) = "Identifier"
                 THEN selected(first, p + 2, Append(parts, ts[p + 1].id))
                 ELSE IF kind(p + 1) = "All"
                 THEN selected(first, p + 2, Append(parts, "all"))
                 ELSE Err(p + 1, {"Identifier", "All"})
               parse_name(p) ==
                 IF kind(p) = "Identifier" THEN selected(p, p + 1, <<ts[p].id>>)
                 ELSE Err(p, {"Identifier"})
               \* a clause is closed by its semicolon and spans to it
               WithPos(item, first, names) ==
                 IF names.k = "Err" THEN names
                 ELSE IF kind(names.p) # "SemiColon" THEN Err(names.p, {"SemiColon"})
                 ELSE Ok([item |-> item, name_list |-> names.v, pos |-> <<first, names.p>>],
                         names.p + 1)
               \* parse_library_clause: library ident {, ident} ;
               RECURSIVE library_names(_, _)
               library_names(p, name_list) ==
                 IF kind(p) # "Identifier" THEN Err(p, {"Identifier"})
                 ELSE IF kind(p + 1) = "Comma"
                 THEN library_names(p + 2, Append(name_list, [id |-> ts[p].id, pos |-> p]))
                 ELSE Ok(Append(name_list, [id |-> ts[p].id, pos |-> p]), p + 1)
               parse_library_clause(p) ==
                 IF kind(p) # "Library" THEN Err(p, {"Library"})
                 ELSE WithPos("Library", p, library_names(p + 1, << >>))
               \* parse_use_clause: use name {, name} ;
               RECURSIVE use_names(_, _)
               use_names(p, name_list) ==
                 IF parse_name(p).k = "Err" THEN parse_name(p)
                 ELSE IF kind(parse_name(p).p) = "Comma"
                 THEN use_names(parse_name(p).p + 1, Append(name_list, parse_name(p).v))
                 ELSE Ok(Append(name_list, parse_name(p).v), parse_name(p).p)
               parse_use_clause(p) ==
                 IF kind(p) # "Use" THEN Err(p, {"Use"})
                 ELSE WithPos("Use", p, use_names(p + 1, << >>))
               \* parse_context_reference: context name {, name} ;
               RECURSIVE reference_names(_, _)
               reference_names(p, name_list) ==
                 IF kind(p) # "Comma" THEN Ok(name_list, p)
                 ELSE IF parse_name(p + 1).k = "Err" THEN parse_name(p + 1)
                 ELSE reference_names(parse_name(p + 1).p, Append(name_list, parse_name(p + 1).v))
               parse_context_reference(p) ==
                 IF kind(p) # "Context" THEN Err(p, {"Context"})
                 ELSE IF parse_name(p + 1).k = "Err" THEN parse_name(p + 1)
                 ELSE WithPos("Context", p,
                              reference_names(parse_name(p + 1).p, <<parse_name(p + 1).v>>))
               \* parse_context, the declaration: the items up to end [context] [ident] ;
               end_ident(p) == IF kind(p) = "Identifier" THEN p ELSE 0
               End(p, items) ==
                 IF kind(IF end_ident(p) # 0 THEN p + 1 ELSE p) # "SemiColon"
                 THEN Err(IF end_ident(p) # 0 THEN p + 1 ELSE p, {"SemiColon"})
                 ELSE Ok([items |-> items, end_ident |-> end_ident(p)],
                         (IF end_ident(p) # 0 THEN p + 1 ELSE p) + 1)
               Item(p) ==
                 CASE kind(p) = "Library" -> parse_library_clause(p)
                   [] kind(p) = "Use" -> parse_use_clause(p)
                   [] kind(p) = "Context" -> parse_context_reference(p)
               RECURSIVE context_items(_, _)
               context_items(p, items) ==
                 IF kind(p) \in {"Library", "Use", "Context"}
                 THEN IF Item(p).k = "Err" THEN Item(p)
                      ELSE context_items(Item(p).p, Append(items, Item(p).v))
                 ELSE IF kind(p) = "End"
                 THEN End(IF kind(p + 1) = "Context" THEN p + 2 ELSE p + 1, items)
                 ELSE Err(p, {"Library", "Use", "Context", "End"})
               to_simple_name(nm) ==
                 IF Len(nm.parts) = 1
                 THEN Ok([id |-> nm.parts[1], pos |-> nm.pos[1]], 0)
                 ELSE Err(nm.pos[1], {"simple name"})
               check_end_identifier_mismatch(ident, e) ==
                 IF e # 0 /\ ts[e].id = ident.id THEN [end_ident_pos |-> e, pushed |-> << >>]
                 ELSE IF e # 0
                 THEN [end_ident_pos |-> e,
                       pushed |-> <<DiagError(e, "End identifier mismatch, expected "
                                                  \o ident.id)>>]
                 ELSE [end_ident_pos |-> 0, pushed |-> << >>]
               Declaration(nm, body) ==
                 IF body.k = "Err" THEN [r |-> body, pushed |-> << >>]
                 ELSE IF to_simple_name(nm).k = "Err"
                 THEN [r |-> to_simple_name(nm), pushed |-> << >>]
                 ELSE [r |-> Ok([variant |-> "Declaration",
                                 ident |-> to_simple_name(nm).v,
                                 items |-> body.v.items,
                                 end_ident_pos |->
                                   check_end_identifier_mismatch(to_simple_name(nm).v,
                                                                 body.v.end_ident).end_ident_pos],
                                body.p),
                       pushed |-> check_end_identifier_mismatch(to_simple_name(nm).v,
                                                                 body.v.end_ident).pushed]
               \* parse_context, the reference: {, name} ;
               RECURSIVE name_list(_, _)
               name_list(p, names) ==
                 IF kind(p) # "Comma" THEN Ok(names, p)
                 ELSE IF parse_name(p + 1).k = "Err" THEN parse_name(p + 1)
                 ELSE name_list(parse_name(p + 1).p, Append(names, parse_name(p + 1).v))
               Reference(context_token, names) ==
                 IF names.k = "Err" THEN [r |-> names, pushed |-> << >>]
                 ELSE IF kind(names.p) # "SemiColon"
                 THEN [r |-> Err(names.p, {"SemiColon"}), pushed |-> << >>]
                 ELSE [r |-> Ok([variant |-> "Reference", name_list |-> names.v,
                                 pos |-> <<context_token, names.p>>], names.p + 1),
                       pushed |-> << >>]
               parse_context(p) ==
                 IF kind(p) # "Context" THEN [r |-> Err(p, {"Context"}), pushed |-> << >>]
                 ELSE IF parse_name(p + 1).k = "Err"
                 THEN [r |-> parse_name(p + 1), pushed |-> << >>]
                 ELSE IF kind(parse_name(p + 1).p) = "Is"
                 THEN Declaration(parse_name(p + 1).v,
                                  context_items(parse_name(p + 1).p + 1, << >>))
                 ELSE Reference(p, name_list(parse_name(p + 1).p, <<parse_name(p + 1).v>>))
           IN  /\ pc' = "parse_context"
               /\ entry' = [fn |-> "parse_context", ttyp |-> NoType, stream |-> ts]
               /\ result' = parse_context(1).r
               /\ diagnostics' = parse_context(1).pushed
               /\ ret' = parse_context_reference(1)
  /\ UNCHANGED <<name, open, level, resolved, prefix, frame, dis, typed, passes>>

\* The reference spans from its first name
Call_parse_context_ReferenceFromName ==
  /\ pc = "start"
  /\ LET T(k) == [kind |-> k, id |-> "-"]
         Id(s) == [kind |-> "Identifier", id |-> s]
         Lists(S, n) == UNION {[1..m -> S] : m \in 0..n}
         RECURSIVE Cat(_)
         Cat(ss) == IF ss = << >> THEN << >> ELSE Head(ss) \o Cat(Tail(ss))
         Heads == {<<T("Context")>>, <<T("Library")>>, << >>}
         FirstNames == {<<Id("ident")>>,
                        <<Id("lib"), T("Dot"), Id("foo")>>,
                        <<Id("lib"), T("Dot"), Id("bar"), T("Dot"), T("All")>>,
                        <<Id("lib"), T("Dot")>>,
                        << >>}
         MoreNames == {<<T("Comma"), Id("bar")>>,
                       <<T("Comma"), Id("lib"), T("Dot"), Id("bar")>>,
                       <<T("Comma")>>}
         Closings == {<<T("SemiColon")>>, <<Id("ident")>>, << >>}
         Items == {<<T("Library"), Id("foo"), T("SemiColon")>>,
                   <<T("Library"), Id("foo"), T("Comma"), Id("bar"), T("SemiColon")>>,
                   <<T("Library"), Id("lib"), T("Dot"), Id("foo"), T("SemiColon")>>,
                   <<T("Use"), Id("foo"), T("Dot"), Id("bar"), T("SemiColon")>>,
                   <<T("Use"), Id("foo"), T("Comma"), Id("lib"), T("Dot"), T("All"),
                     T("SemiColon")>>,
                   <<T("Context"), Id("foo"), T("Dot"), Id("ctx"), T("SemiColon")>>,
                   <<T("Context"), Id("foo"), T("Comma"), Id("bar"), T("SemiColon")>>,
                   <<T("Context"), Id("foo"), T("Is")>>,
                   <<T("Entity")>>,
                   <<T("SemiColon")>>}
         Ends == {<<T("End"), T("SemiColon")>>,
                  <<T("End"), T("Context"), T("SemiColon")>>,
                  <<T("End"), Id("ident"), T("SemiColon")>>,
                  <<T("End"), T("Context"), Id("ident"), T("SemiColon")>>,
                  <<T("End"), Id("ident2"), T("SemiColon")>>,
                  <<T("End"), T("Context"), Id("ident2"), T("SemiColon")>>,
                  <<T("End"), T("Context"), T("Context"), T("SemiColon")>>,
                  <<T("End"), Id("ident")>>,
                  << >>}
         References == {h \o f \o Cat(ns) \o c :
                          h \in Heads, f \in FirstNames,
                          ns \in Lists(MoreNames, MaxNames), c \in Closings}
         Declarations == {h \o f \o <<T("Is")>> \o Cat(is) \o e :
                            h \in Heads, f \in FirstNames,
                            is \in Lists(Items, MaxItems), e \in Ends}
     IN  \E ts \in References \cup Declarations :
           LET Ok(v, p) == [k |-> "Ok", v |-> v, p |-> p]
               Err(p, expected) == [k |-> "Err", v |-> [pos |-> p, expected |-> expected], p |-> p]
               kind(p) == IF p <= Len(ts) THEN ts[p].kind ELSE "EOF"
               \* names::parse_name: an identifier and its selected suffixes
               RECURSIVE selected(_, _, _)
               selected(first, p, parts) ==
                 IF kind(p) # "Dot"
                 THEN Ok([parts |-> parts, pos |-> <<first, p - 1>>], p)
                 ELSE IF kind(p + 1) = "Identifier"
                 THEN selected(first, p + 2, Append(parts, ts[p + 1].id))
                 ELSE IF kind(p + 1) = "All"
                 THEN selected(first, p + 2, Append(parts, "all"))
                 ELSE Err(p + 1, {"Identifier", "All"})
               parse_name(p) ==
                 IF kind(p) = "Identifier" THEN selected(p, p + 1, <<ts[p].id>>)
                 ELSE Err(p, {"Identifier"})
               \* a clause is closed by its semicolon and spans to it
               WithPos(item, first, names) ==
                 IF names.k = "Err" THEN names
                 ELSE IF kind(names.p) # "SemiColon" THEN Err(names.p, {"SemiColon"})
                 ELSE Ok([item |-> item, name_list |-> names.v, pos |-> <<first, names.p>>],
                         names.p + 1)
               \* parse_library_clause: library ident {, ident} ;
               RECURSIVE library_names(_, _)
               library_names(p, name_list) ==
                 IF kind(p) # "Identifier" THEN Err(p, {"Identifier"})
                 ELSE IF kind(p + 1) = "Comma"
                 THEN library_names(p + 2, Append(name_list, [id |-> ts[p].id, pos |-> p]))
                 ELSE Ok(Append(name_list, [id |-> ts[p].id, pos |-> p]), p + 1)
               parse_library_clause(p) ==
                 IF kind(p) # "Library" THEN Err(p, {"Library"})
                 ELSE WithPos("Library", p, library_names(p + 1, << >>))
               \* parse_use_clause: use name {, name} ;
               RECURSIVE use_names(_, _)
               use_names(p, name_list) ==
                 IF parse_name(p).k = "Err" THEN parse_name(p)
                 ELSE IF kind(parse_name(p).p) = "Comma"
                 THEN use_names(parse_name(p).p + 1, Append(name_list, parse_name(p).v))
                 ELSE Ok(Append(name_list, parse_name(p).v), parse_name(p).p)
               parse_use_clause(p) ==
                 IF kind(p) # "Use" THEN Err(p, {"Use"})
                 ELSE WithPos("Use", p, use_names(p + 1, << >>))
               \* parse_context_reference: context name {, name} ;
               RECURSIVE reference_names(_, _)
               reference_names(p, name_list) ==
                 IF kind(p) # "Comma" THEN Ok(name_list, p)
                 ELSE IF parse_name(p + 1).k = "Err" THEN parse_name(p + 1)
                 ELSE reference_names(parse_name(p + 1).p, Append(name_list, parse_name(p + 1).v))
               parse_context_reference(p) ==
                 IF kind(p) # "Context" THEN Err(p, {"Context"})
                 ELSE IF parse_name(p + 1).k = "Err" THEN parse_name(p + 1)
                 ELSE WithPos("Context", p,
                              reference_names(parse_name(p + 1).p, <<parse_name(p + 1).v>>))
               \* parse_context, the declaration: the items up to end [context] [ident] ;
               end_ident(p) == IF kind(p) = "Identifier" THEN p ELSE 0
               End(p, items) ==
                 IF kind(IF end_ident(p) # 0 THEN p + 1 ELSE p) # "SemiColon"
                 THEN Err(IF end_ident(p) # 0 THEN p + 1 ELSE p, {"SemiColon"})
                 ELSE Ok([items |-> items, end_ident |-> end_ident(p)],
                         (IF end_ident(p) # 0 THEN p + 1 ELSE p) + 1)
               Item(p) ==
                 CASE kind(p) = "Library" -> parse_library_clause(p)
                   [] kind(p) = "Use" -> parse_use_clause(p)
                   [] kind(p) = "Context" -> parse_context_reference(p)
               RECURSIVE context_items(_, _)
               context_items(p, items) ==
                 IF kind(p) \in {"Library", "Use", "Context"}
                 THEN IF Item(p).k = "Err" THEN Item(p)
                      ELSE context_items(Item(p).p, Append(items, Item(p).v))
                 ELSE IF kind(p) = "End"
                 THEN End(IF kind(p + 1) = "Context" THEN p + 2 ELSE p + 1, items)
                 ELSE Err(p, {"Library", "Use", "Context", "End"})
               to_simple_name(nm) ==
                 IF Len(nm.parts) = 1
                 THEN Ok([id |-> nm.parts[1], pos |-> nm.pos[1]], 0)
                 ELSE Err(nm.pos[1], {"simple name"})
               check_end_identifier_mismatch(ident, e) ==
                 IF e # 0 /\ ts[e].id = ident.id THEN [end_ident_pos |-> e, pushed |-> << >>]
                 ELSE IF e # 0
                 THEN [end_ident_pos |-> 0,
                       pushed |-> <<DiagError(e, "End identifier mismatch, expected "
                                                  \o ident.id)>>]
                 ELSE [end_ident_pos |-> 0, pushed |-> << >>]
               Declaration(nm, body) ==
                 IF body.k = "Err" THEN [r |-> body, pushed |-> << >>]
                 ELSE IF to_simple_name(nm).k = "Err"
                 THEN [r |-> to_simple_name(nm), pushed |-> << >>]
                 ELSE [r |-> Ok([variant |-> "Declaration",
                                 ident |-> to_simple_name(nm).v,
                                 items |-> body.v.items,
                                 end_ident_pos |->
                                   check_end_identifier_mismatch(to_simple_name(nm).v,
                                                                 body.v.end_ident).end_ident_pos],
                                body.p),
                       pushed |-> check_end_identifier_mismatch(to_simple_name(nm).v,
                                                                 body.v.end_ident).pushed]
               \* parse_context, the reference: {, name} ;
               RECURSIVE name_list(_, _)
               name_list(p, names) ==
                 IF kind(p) # "Comma" THEN Ok(names, p)
                 ELSE IF parse_name(p + 1).k = "Err" THEN parse_name(p + 1)
                 ELSE name_list(parse_name(p + 1).p, Append(names, parse_name(p + 1).v))
               Reference(context_token, names) ==
                 IF names.k = "Err" THEN [r |-> names, pushed |-> << >>]
                 ELSE IF kind(names.p) # "SemiColon"
                 THEN [r |-> Err(names.p, {"SemiColon"}), pushed |-> << >>]
                 ELSE [r |-> Ok([variant |-> "Reference", name_list |-> names.v,
                                 pos |-> <<context_token + 1, names.p>>], names.p + 1),
                       pushed |-> << >>]
               parse_context(p) ==
                 IF kind(p) # "Context" THEN [r |-> Err(p, {"Context"}), pushed |-> << >>]
                 ELSE IF parse_name(p + 1).k = "Err"
                 THEN [r |-> parse_name(p + 1), pushed |-> << >>]
                 ELSE IF kind(parse_name(p + 1).p) = "Is"
                 THEN Declaration(parse_name(p + 1).v,
                                  context_items(parse_name(p + 1).p + 1, << >>))
                 ELSE Reference(p, name_list(parse_name(p + 1).p, <<parse_name(p + 1).v>>))
           IN  /\ pc' = "parse_context"
               /\ entry' = [fn |-> "parse_context", ttyp |-> NoType, stream |-> ts]
               /\ result' = parse_context(1).r
               /\ diagnostics' = parse_context(1).pushed
               /\ ret' = parse_context_reference(1)
  /\ UNCHANGED <<name, open, level, resolved, prefix, frame, dis, typed, passes>>

\* parse_context and parse_context_reference are applied to the same token
\* stream, each from its first token.  A token is its kind and, for an
\* identifier, its symbol; its position is its index in the stream.  A parse
\* result is Ok with a value and the position of the next token, or Err with the
\* position of the offending token and what was expected there.  The token
\* stream interface, parse_name, to_simple_name and
\* check_end_identifier_mismatch follow their use in context.rs and its tests.
Call_parse_context ==
  /\ pc = "start"
  /\ LET T(k) == [kind |-> k, id |-> "-"]
         Id(s) == [kind |-> "Identifier", id |-> s]
         Lists(S, n) == UNION {[1..m -> S] : m \in 0..n}
         RECURSIVE Cat(_)
         Cat(ss) == IF ss = << >> THEN << >> ELSE Head(ss) \o Cat(Tail(ss))
         Heads == {<<T("Context")>>, <<T("Library")>>, << >>}
         FirstNames == {<<Id("ident")>>,
                        <<Id("lib"), T("Dot"), Id("foo")>>,
                        <<Id("lib"), T("Dot"), Id("bar"), T("Dot"), T("All")>>,
                        <<Id("lib"), T("Dot")>>,
                        << >>}
         MoreNames == {<<T("Comma"), Id("bar")>>,
                       <<T("Comma"), Id("lib"), T("Dot"), Id("bar")>>,
                       <<T("Comma")>>}
         Closings == {<<T("SemiColon")>>, <<Id("ident")>>, << >>}
         Items == {<<T("Library"), Id("foo"), T("SemiColon")>>,
                   <<T("Library"), Id("foo"), T("Comma"), Id("bar"), T("SemiColon")>>,
                   <<T("Library"), Id("lib"), T("Dot"), Id("foo"), T("SemiColon")>>,
                   <<T("Use"), Id("foo"), T("Dot"), Id("bar"), T("SemiColon")>>,
                   <<T("Use"), Id("foo"), T("Comma"), Id("lib"), T("Dot"), T("All"),
                     T("SemiColon")>>,
                   <<T("Context"), Id("foo"), T("Dot"), Id("ctx"), T("SemiColon")>>,
                   <<T("Context"), Id("foo"), T("Comma"), Id("bar"), T("SemiColon")>>,
                   <<T("Context"), Id("foo"), T("Is")>>,
                   <<T("Entity")>>,
                   <<T("SemiColon")>>}
         Ends == {<<T("End"), T("SemiColon")>>,
                  <<T("End"), T("Context"), T("SemiColon")>>,
                  <<T("End"), Id("ident"), T("SemiColon")>>,
                  <<T("End"), T("Context"), Id("ident"), T("SemiColon")>>,
                  <<T("End"), Id("ident2"), T("SemiColon")>>,
                  <<T("End"), T("Context"), Id("ident2"), T("SemiColon")>>,
                  <<T("End"), T("Context"), T("Context"), T("SemiColon")>>,
                  <<T("End"), Id("ident")>>,
                  << >>}
         References == {h \o f \o Cat(ns) \o c :
                          h \in Heads, f \in FirstNames,
                          ns \in Lists(MoreNames, MaxNames), c \in Closings}
         Declarations == {h \o f \o <<T("Is")>> \o Cat(is) \o e :
                            h \in Heads, f \in FirstNames,
                            is \in Lists(Items, MaxItems), e \in Ends}
     IN  \E ts \in References \cup Declarations :
           LET Ok(v, p) == [k |-> "Ok", v |-> v, p |-> p]
               Err(p, expected) == [k |-> "Err", v |-> [pos |-> p, expected |-> expected], p |-> p]
               kind(p) == IF p <= Len(ts) THEN ts[p].kind ELSE "EOF"
               \* names::parse_name: an identifier and its selected suffixes
               RECURSIVE selected(_, _, _)
               selected(first, p, parts) ==
                 IF kind(p) # "Dot"
                 THEN Ok([parts |-> parts, pos |-> <<first, p - 1>>], p)
                 ELSE IF kind(p + 1) = "Identifier"
                 THEN selected(first, p + 2, Append(parts, ts[p + 1].id))
                 ELSE IF kind(p + 1) = "All"
                 THEN selected(first, p + 2, Append(parts, "all"))
                 ELSE Err(p + 1, {"Identifier", "All"})
               parse_name(p) ==
                 IF kind(p) = "Identifier" THEN selected(p, p + 1, <<ts[p].id>>)
                 ELSE Err(p, {"Identifier"})
               \* a clause is closed by its semicolon and spans to it
               WithPos(item, first, names) ==
                 IF names.k = "Err" THEN names
                 ELSE IF kind(names.p) # "SemiColon" THEN Err(names.p, {"SemiColon"})
                 ELSE Ok([item |-> item, name_list |-> names.v, pos |-> <<first, names.p>>],
                         names.p + 1)
               \* parse_library_clause: library ident {, ident} ;
               RECURSIVE library_names(_, _)
               library_names(p, name_list) ==
                 IF kind(p) # "Identifier" THEN Err(p, {"Identifier"})
                 ELSE IF kind(p + 1) = "Comma"
                 THEN library_names(p + 2, Append(name_list, [id |-> ts[p].id, pos |-> p]))
                 ELSE Ok(Append(name_list, [id |-> ts[p].id, pos |-> p]), p + 1)
               parse_library_clause(p) ==
                 IF kind(p) # "Library" THEN Err(p, {"Library"})
                 ELSE WithPos("Library", p, library_names(p + 1, << >>))
               \* parse_use_clause: use name {, name} ;
               RECURSIVE use_names(_, _)
               use_names(p, name_list) ==
                 IF parse_name(p).k = "Err" THEN parse_name(p)
                 ELSE IF kind(parse_name(p).p) = "Comma"
                 THEN use_names(parse_name(p).p + 1, Append(name_list, parse_name(p).v))
                 ELSE Ok(Append(name_list, parse_name(p).v), parse_name(p).p)
               parse_use_clause(p) ==
                 IF kind(p) # "Use" THEN Err(p, {"Use"})
                 ELSE WithPos("Use", p, use_names(p + 1, << >>))
               \* parse_context_reference: context name {, name} ;
               RECURSIVE reference_names(_, _)
               reference_names(p, name_list) ==
                 IF kind(p) # "Comma" THEN Ok(name_list, p)
                 ELSE IF parse_name(p + 1).k = "Err" THEN parse_name(p + 1)
                 ELSE reference_names(parse_name(p + 1).p, Append(name_list, parse_name(p + 1).v))
               parse_context_reference(p) ==
                 IF kind(p) # "Context" THEN Err(p, {"Context"})
                 ELSE IF parse_name(p + 1).k = "Err" THEN parse_name(p + 1)
                 ELSE WithPos("Context", p,
                              reference_names(parse_name(p + 1).p, <<parse_name(p + 1).v>>))
               \* parse_context, the declaration: the items up to end [context] [ident] ;
               end_ident(p) == IF kind(p) = "Identifier" THEN p ELSE 0
               End(p, items) ==
                 IF kind(IF end_ident(p) # 0 THEN p + 1 ELSE p) # "SemiColon"
                 THEN Err(IF end_ident(p) # 0 THEN p + 1 ELSE p, {"SemiColon"})
                 ELSE Ok([items |-> items, end_ident |-> end_ident(p)],
                         (IF end_ident(p) # 0 THEN p + 1 ELSE p) + 1)
               Item(p) ==
                 CASE kind(p) = "Library" -> parse_library_clause(p)
                   [] kind(p) = "Use" -> parse_use_clause(p)
                   [] kind(p) = "Context" -> parse_context_reference(p)
               RECURSIVE context_items(_, _)
               context_items(p, items) ==
                 IF kind(p) \in {"Library", "Use", "Context"}
                 THEN IF Item(p).k = "Err" THEN Item(p)
                      ELSE context_items(Item(p).p, Append(items, Item(p).v))
                 ELSE IF kind(p) = "End"
                 THEN End(IF kind(p + 1) = "Context" THEN p + 2 ELSE p + 1, items)
                 ELSE Err(p, {"Library", "Use", "Context", "End"})
               to_simple_name(nm) ==
                 IF Len(nm.parts) = 1
                 THEN Ok([id |-> nm.parts[1], pos |-> nm.pos[1]], 0)
                 ELSE Err(nm.pos[1], {"simple name"})
               check_end_identifier_mismatch(ident, e) ==
                 IF e # 0 /\ ts[e].id = ident.id THEN [end_ident_pos |-> e, pushed |-> << >>]
                 ELSE IF e # 0
                 THEN [end_ident_pos |-> 0,
                       pushed |-> <<DiagError(e, "End identifier mismatch, expected "
                                                  \o ident.id)>>]
                 ELSE [end_ident_pos |-> 0, pushed |-> << >>]
               Declaration(nm, body) ==
                 IF body.k = "Err" THEN [r |-> body, pushed |-> << >>]
                 ELSE IF to_simple_name(nm).k = "Err"
                 THEN [r |-> to_simple_name(nm), pushed |-> << >>]
                 ELSE [r |-> Ok([variant |-> "Declaration",
                                 ident |-> to_simple_name(nm).v,
                                 items |-> body.v.items,
                                 end_ident_pos |->
                                   check_end_identifier_mismatch(to_simple_name(nm).v,
                                                                 body.v.end_ident).end_ident_pos],
                                body.p),
                       pushed |-> check_end_identifier_mismatch(to_simple_name(nm).v,
                                                                 body.v.end_ident).pushed]
               \* parse_context, the reference: {, name} ;
               RECURSIVE name_list(_, _)
               name_list(p, names) ==
                 IF kind(p) # "Comma" THEN Ok(names, p)
                 ELSE IF parse_name(p + 1).k = "Err" THEN parse_name(p + 1)
                 ELSE name_list(parse_name(p + 1).p, Append(names, parse_name(p + 1).v))
               Reference(context_token, names) ==
                 IF names.k = "Err" THEN [r |-> names, pushed |-> << >>]
                 ELSE IF kind(names.p) # "SemiColon"
                 THEN [r |-> Err(names.p, {"SemiColon"}), pushed |-> << >>]
                 ELSE [r |-> Ok([variant |-> "Reference", name_list |-> names.v,
                                 pos |-> <<context_token, names.p>>], names.p + 1),
                       pushed |-> << >>]
               parse_context(p) ==
                 IF kind(p) # "Context" THEN [r |-> Err(p, {"Context"}), pushed |-> << >>]
                 ELSE IF parse_name(p + 1).k = "Err"
                 THEN [r |-> parse_name(p + 1), pushed |-> << >>]
                 ELSE IF kind(parse_name(p + 1).p) = "Is"
                 THEN Declaration(parse_name(p + 1).v,
                                  context_items(parse_name(p + 1).p + 1, << >>))
                 ELSE Reference(p, name_list(parse_name(p + 1).p, <<parse_name(p + 1).v>>))
           IN  /\ pc' = "parse_context"
               /\ entry' = [fn |-> "parse_context", ttyp |-> NoType, stream |-> ts]
               /\ result' = parse_context(1).r
               /\ diagnostics' = parse_context(1).pushed
               /\ ret' = parse_context_reference(1)
  /\ UNCHANGED <<name, open, level, resolved, prefix, frame, dis, typed, passes>>

\* The parser reads no syntax tree and leaves the one of the state alone
ContextSpec == Init /\ [][Call_parse_context]_vars

\* ---- the grammar of a context clause, read off the token stream ----

ContextParsed == pc = "parse_context"

KindAt(p) == IF p <= Len(entry.stream) THEN entry.stream[p].kind ELSE "EOF"

\* The last token of the name that starts with the identifier at p
RECURSIVE NameEnd(_)
NameEnd(p) ==
  IF KindAt(p + 1) = "Dot" /\ KindAt(p + 2) \in {"Identifier", "All"}
  THEN NameEnd(p + 2)
  ELSE p

\* The name that spans the tokens p..q
NameAt(p, q) ==
  [parts |-> [i \in 1..((q - p) \div 2 + 1) |->
                IF KindAt(p + 2 * (i - 1)) = "All" THEN "all"
                ELSE entry.stream[p + 2 * (i - 1)].id],
   pos |-> <<p, q>>]

\* The names of a comma-separated list of names that starts at p
RECURSIVE NamesFrom(_)
NamesFrom(p) ==
  IF KindAt(p) # "Identifier" THEN << >>
  ELSE IF KindAt(NameEnd(p) + 1) = "Comma"
  THEN <<NameAt(p, NameEnd(p))>> \o NamesFrom(NameEnd(p) + 2)
  ELSE <<NameAt(p, NameEnd(p))>>

\* The token after a comma-separated list of names that starts at p,
\* 0 when a comma is not followed by a name
RECURSIVE NamesEnd(_)
NamesEnd(p) ==
  IF KindAt(p) # "Identifier" THEN 0
  ELSE IF KindAt(NameEnd(p) + 1) = "Comma" THEN NamesEnd(NameEnd(p) + 2)
  ELSE NameEnd(p) + 1

\* The same for the identifiers of a library clause
RECURSIVE IdentsFrom(_)
IdentsFrom(p) ==
  IF KindAt(p) # "Identifier" THEN << >>
  ELSE IF KindAt(p + 1) = "Comma"
  THEN <<[id |-> entry.stream[p].id, pos |-> p]>> \o IdentsFrom(p + 2)
  ELSE <<[id |-> entry.stream[p].id, pos |-> p]>>

RECURSIVE IdentsEnd(_)
IdentsEnd(p) ==
  IF KindAt(p) # "Identifier" THEN 0
  ELSE IF KindAt(p + 1) = "Comma" THEN IdentsEnd(p + 2)
  ELSE p + 1

\* The semicolon of the library, use or context item whose keyword is at p,
\* 0 when the tokens at p are no such item
ItemEnd(p) ==
  IF KindAt(p) \notin {"Library", "Use", "Context"} THEN 0
  ELSE IF KindAt(p) = "Library"
  THEN IF IdentsEnd(p + 1) # 0 /\ KindAt(IdentsEnd(p + 1)) = "SemiColon"
       THEN IdentsEnd(p + 1) ELSE 0
  ELSE IF NamesEnd(p + 1) # 0 /\ KindAt(NamesEnd(p + 1)) = "SemiColon"
       THEN NamesEnd(p + 1) ELSE 0

ItemAt(p) ==
  [item |-> KindAt(p),
   name_list |-> IF KindAt(p) = "Library" THEN IdentsFrom(p + 1) ELSE NamesFrom(p + 1),
   pos |-> <<p, ItemEnd(p)>>]

\* The items from p on, in source order, and the token after the last of them
RECURSIVE ItemsFrom(_)
ItemsFrom(p) ==
  IF ItemEnd(p) = 0 THEN << >> ELSE <<ItemAt(p)>> \o ItemsFrom(ItemEnd(p) + 1)

RECURSIVE ItemsEnd(_)
ItemsEnd(p) == IF ItemEnd(p) = 0 THEN p ELSE ItemsEnd(ItemEnd(p) + 1)

\* The end identifier of end [context] [identifier] ; with end at p (0: none),
\* and its semicolon (0: the tokens at p are no such end)
EndIdent(p) ==
  IF KindAt(IF KindAt(p + 1) = "Context" THEN p + 2 ELSE p + 1) = "Identifier"
  THEN IF KindAt(p + 1) = "Context" THEN p + 2 ELSE p + 1
  ELSE 0

EndSemi(p) ==
  IF KindAt(p) # "End" THEN 0
  ELSE IF EndIdent(p) # 0
  THEN IF KindAt(EndIdent(p) + 1) = "SemiColon" THEN EndIdent(p) + 1 ELSE 0
  ELSE IF KindAt(IF KindAt(p + 1) = "Context" THEN p + 2 ELSE p + 1) = "SemiColon"
  THEN IF KindAt(p + 1) = "Context" THEN p + 2 ELSE p + 1
  ELSE 0

\* The stream starts with context and a name
StartsContext ==
  /\ KindAt(1) = "Context"
  /\ KindAt(2) = "Identifier"
  /\ KindAt(NameEnd(2) + 1) # "Dot"

\* The token after the first name
AfterName == NameEnd(2) + 1

\* context identifier is {item} end [context] [identifier] ;
DeclarationFormed ==
  /\ StartsContext
  /\ KindAt(AfterName) = "Is"
  /\ NameEnd(2) = 2
  /\ EndSemi(ItemsEnd(AfterName + 1)) # 0

\* context name {, name} ;
ReferenceFormed ==
  /\ StartsContext
  /\ KindAt(AfterName) # "Is"
  /\ NamesEnd(2) # 0
  /\ KindAt(NamesEnd(2)) = "SemiColon"

IsDeclaration(r) == r.k = "Ok" /\ r.v.variant = "Declaration"

IsReference(r) == r.k = "Ok" /\ r.v.variant = "Reference"

\* C31: parse_context decides by the token after the first name: with is it
\* returns a Declaration whose items are the library, use and context items in
\* source order up to end [context] [identifier] ; and fails on any other token
\* in the body or on a first name that is not simple; otherwise it returns a
\* Reference whose names are the first name and every comma-separated name, in
\* order, up to the semicolon
C31_ParseContext ==
  ContextParsed =>
    /\ IsDeclaration(result) <=> DeclarationFormed
    /\ IsReference(result) <=> ReferenceFormed
    /\ result.k = "Err" <=> ~DeclarationFormed /\ ~ReferenceFormed
    /\ IsDeclaration(result) =>
         /\ result.v.ident = [id |-> entry.stream[2].id, pos |-> 2]
         /\ result.v.items = ItemsFrom(AfterName + 1)
         /\ result.p = EndSemi(ItemsEnd(AfterName + 1)) + 1
    /\ IsReference(result) =>
         /\ result.v.name_list = NamesFrom(2)
         /\ result.v.pos = <<1, NamesEnd(2)>>
         /\ result.p = NamesEnd(2) + 1

\* A declaration with a library clause and then a context reference of two names
C31_Witness ==
  /\ ContextParsed
  /\ IsDeclaration(result)
  /\ Len(result.v.items) = 2
  /\ result.v.items[1].item = "Library"
  /\ result.v.items[2].item = "Context"
  /\ Len(result.v.items[2].name_list) = 2

\* A reference of three names
C31_ReferenceWitness ==
  /\ ContextParsed
  /\ IsReference(result)
  /\ Len(result.v.name_list) = 3
  /\ result.v.name_list[3].parts = <<"lib", "bar">>

\* A token that starts no item fails the declaration
C31_OtherTokenWitness ==
  /\ ContextParsed
  /\ KindAt(4) = "Entity"
  /\ result.k = "Err"
  /\ result.v.pos = 4

\* A first name that is not simple fails the declaration after its body
C31_SimpleNameWitness ==
  /\ ContextParsed
  /\ StartsContext
  /\ NameEnd(2) = 4
  /\ KindAt(5) = "Is"
  /\ EndSemi(ItemsEnd(6)) # 0
  /\ result.k = "Err"
  /\ result.v.expected = {"simple name"}

\* The end identifier of the declaration, 0 when it has none
DeclaredEndIdent == EndIdent(ItemsEnd(AfterName + 1))

EndIdentMatches ==
  /\ DeclaredEndIdent # 0
  /\ entry.stream[DeclaredEndIdent].id = entry.stream[2].id

\* C32: in a context declaration end_ident_pos is the position of the end
\* identifier exactly when there is one and it equals the declared identifier
\* (0 stands for None); without an end identifier it is None; with a different
\* one it is None, the declaration is still returned and exactly one diagnostic
\* 'End identifier mismatch, expected <ident>' is pushed at the end identifier
C32_EndIdentPos ==
  ContextParsed /\ DeclarationFormed =>
    /\ IsDeclaration(result)
    /\ result.v.end_ident_pos # 0 <=> EndIdentMatches
    /\ EndIdentMatches => result.v.end_ident_pos = DeclaredEndIdent /\ diagnostics = << >>
    /\ DeclaredEndIdent = 0 => result.v.end_ident_pos = 0 /\ diagnostics = << >>
    /\ DeclaredEndIdent # 0 /\ ~EndIdentMatches =>
         /\ result.v.end_ident_pos = 0
         /\ diagnostics = <<DiagError(DeclaredEndIdent,
                                      "End identifier mismatch, expected "
                                        \o entry.stream[2].id)>>

\* context ident is ... end context ident2 ;
C32_Witness ==
  /\ ContextParsed
  /\ IsDeclaration(result)
  /\ result.v.ident.id = "ident"
  /\ DeclaredEndIdent # 0
  /\ KindAt(DeclaredEndIdent - 1) = "Context"
  /\ entry.stream[DeclaredEndIdent].id = "ident2"
  /\ result.v.end_ident_pos = 0
  /\ Len(diagnostics) = 1
  /\ diagnostics[1].msg = "End identifier mismatch, expected ident"

\* context ident is ... end ident ;
C32_MatchWitness ==
  /\ ContextParsed
  /\ IsDeclaration(result)
  /\ Len(result.v.items) = 1
  /\ result.v.end_ident_pos = DeclaredEndIdent
  /\ DeclaredEndIdent # 0
  /\ diagnostics = << >>

\* context ident is ... end context ;
C32_NoneWitness ==
  /\ ContextParsed
  /\ IsDeclaration(result)
  /\ DeclaredEndIdent = 0
  /\ result.v.end_ident_pos = 0

\* The stream is not a context declaration: no is after the first name
NoDeclaration == ~(StartsContext /\ KindAt(AfterName) = "Is")

\* C40: on every token stream that starts a context reference, parse_context
\* returns Reference(r) with r the ContextReference (the same names in the same
\* order, the same span from the context token to the semicolon) that
\* parse_context_reference returns on the same tokens, and the two fail on the
\* same streams, with the same error
C40_SameReference ==
  ContextParsed /\ NoDeclaration =>
    /\ IsReference(result) <=> ret.k = "Ok"
    /\ ret.k = "Ok" =>
         /\ result.v.name_list = ret.v.name_list
         /\ result.v.pos = ret.v.pos
         /\ result.p = ret.p
    /\ ret.k = "Err" => result = ret

\* context lib.foo, bar, lib.bar ; read by both
C40_Witness ==
  /\ ContextParsed
  /\ NoDeclaration
  /\ ret.k = "Ok"
  /\ IsReference(result)
  /\ Len(ret.v.name_list) = 3
  /\ ret.v.name_list[1].parts = <<"lib", "foo">>
  /\ ret.v.pos = <<1, Len(entry.stream)>>

\* A comma without a name after it fails both
C40_FailWitness ==
  /\ ContextParsed
  /\ NoDeclaration
  /\ StartsContext
  /\ KindAt(AfterName) = "Comma"
  /\ ret.k = "Err"
  /\ result.k = "Err"
  /\ ret.v.pos = AfterName + 1

\* The leaf and the first j suffixes of the name are a designator followed
\* only by selections
SelectedChain(j) ==
  /\ name.leaf.kind = "Designator"
  /\ j <= Len(name.sfx)
  /\ \A k \in 1..j : name.sfx[k].kind = "Selected"

\* What name_resolve returns for the leaf and the first j suffixes of the name:
\* the frames of the driver, innermost first
RECURSIVE FullResolver(_)
FullResolver(j) ==
  IF j = 0 THEN LeafFrame(name)
  ELSE IF FullResolver(j - 1).ret.k # "Some" THEN FullResolver(j - 1)
  ELSE SuffixFrame(FullResolver(j - 1).nm, j, FullResolver(j - 1).ret.rn, NoType,
                   j < Len(name.sfx))

\* name_resolve returns an ObjectName for the name looked up so far
FullResolverObject ==
  /\ FullResolver(level).ret.k = "Some"
  /\ FullResolver(level).ret.rn.kind = "ObjectName"

\* C39: the fallback accepts the selected names on objects that the full
\* resolver accepts: when name_resolve returns an ObjectName for a designator
\* followed only by selections, resolve_name succeeds on every selection step,
\* whatever the kind of the object at the leaf
C39_FallbackAccepts ==
  NameLookedUp /\ SelectedChain(level) /\ FullResolverObject
    => ret.k = "Some" /\ diagnostics = << >>

\* dc.fld, dc a deferred constant of a record type: name_resolve selects the
\* element while lookup_selected rejects the prefix
C39_DeferredConstant ==
  /\ NameLookedUp
  /\ level = 1
  /\ name.leaf.kind = "Designator"
  /\ name.leaf.des = "dc"
  /\ name.sfx[1].kind = "Selected"
  /\ name.sfx[1].des = "fld"
  /\ FullResolverObject
  /\ ret.k = "None"
  /\ Len(diagnostics) = 1

\* The same chain on the other object-like kinds is accepted by both
C39_ObjectAccepted ==
  /\ NameLookedUp
  /\ level = 1
  /\ name.leaf.kind = "Designator"
  /\ name.leaf.des = "c_rec"
  /\ name.sfx[1].kind = "Selected"
  /\ name.sfx[1].des = "fld"
  /\ FullResolverObject
  /\ ret.k = "Some"

\* Leaving out the names that go through a deferred constant, the fallback
\* accepts every selected name on an object that the full resolver accepts
C39_ButDeferredConstant ==
  /\ NameLookedUp
  /\ SelectedChain(level)
  /\ FullResolverObject
  /\ \A j \in 0..level : FullResolver(j).ret.rn.base.bk # "DeferredConstant"
  => ret.k = "Some" /\ diagnostics = << >>

====
